---- MODULE Spec2Model ----
(***************************************************************************)
(* A model of the http_io message codec and body-framing engine            *)
(* (src/src/protocol.rs, src/src/io.rs, src/src/server.rs).                *)
(*                                                                         *)
(* Bytes are one-character strings; a byte string is a sequence of them.   *)
(* An Option<T> is a sequence of length 0 (None) or 1 (Some(x)).           *)
(***************************************************************************)
EXTENDS Integers, Sequences, FiniteSets, TLC

VARIABLES
    src,        \* what the peer meant to send: the chunk payloads and how the stream is damaged
    input,      \* bytes of the underlying stream not yet read
    body,       \* the HttpBody being read
    delivered,  \* every byte the body's read calls have returned so far
    lastRet,    \* result of the latest read: "none" (no read yet), "data" (Ok(n), n > 0),
                \* "end" (Ok(0)) or "err"
    hist,       \* history of the reads: [anyEmpty, errored, zeroSeen]
    hdr,        \* what the body was built from: [encoding, content_length], both Options
    pc,         \* where the run is: "build", "open", "flush", "read", "done", "body"
    client,     \* the sending side: the OutgoingRequest, its BufWriter and the socket
    server,     \* one serve_one call: its position, the request, the handler calls, the output
    exch,       \* a client and a server on one connection: the two pipes, the server's
                \* position, what the handler read and what the caller got
    httpClient, \* an HttpClient and the one-shot calls: the cache (streams), every call of
                \* connect, what was written to and read from each stream, the last result
    keep,       \* one cached stream used for request after request: the bytes the client
                \* can read, the body of the response being read, what each finish returned
    parser,     \* a Parser: the string (as bytes), the position, and how the last operation
                \* on it ended
    headers,    \* an HttpHeaders: the map, the insert calls made on it, the latest get
    urlRun,     \* a URL string, the Url parsed from it, its formatting, and that parsed again
    statusRun,  \* a status code, the HttpStatus made from it, and the code of that
    wire        \* a request or response as bytes, and what deserialize made of it

vars ==
    <<src, input, body, delivered, lastRet, hist, hdr, pc, client, server, exch, httpClient, keep,
      parser, headers, urlRun, statusRun, wire>>

(***************************************************************************)
(* Bounds of the model.                                                    *)
(***************************************************************************)
MaxPayload == 2     \* longest short chunk payload
MaxChunks == 2      \* most chunks in one stream (and most writes on one body)
LongLen == 17       \* length of the one long payload (a two-digit hex size)
MaxBuf == 3         \* longest buffer handed to read
MaxLength == 3      \* largest Content-Length value

CR == "\r"
LF == "\n"
CRLF == <<CR, LF>>

None == <<>>
Some(x) == <<x>>

Min(a, b) == IF a < b THEN a ELSE b

RECURSIVE Flatten(_)
Flatten(ss) == IF ss = <<>> THEN <<>> ELSE Head(ss) \o Flatten(Tail(ss))

IsPrefix(s, t) == Len(s) <= Len(t) /\ SubSeq(t, 1, Len(s)) = s

Drop(s, n) == SubSeq(s, n + 1, Len(s))

(***************************************************************************)
(* Characters and their bytes.                                             *)
(***************************************************************************)
AsciiUpper ==
    <<"A", "B", "C", "D", "E", "F", "G", "H", "I", "J", "K", "L", "M",
      "N", "O", "P", "Q", "R", "S", "T", "U", "V", "W", "X", "Y", "Z">>

AsciiLower ==
    <<"a", "b", "c", "d", "e", "f", "g", "h", "i", "j", "k", "l", "m",
      "n", "o", "p", "q", "r", "s", "t", "u", "v", "w", "x", "y", "z">>

AsciiDigits == <<"0", "1", "2", "3", "4", "5", "6", "7", "8", "9">>

\* The bytes that are written as themselves in the strings of the model; 0xC3 and 0xA9 are
\* written "C3" and "A9" (together they are e-acute).
Bytes ==
    {AsciiUpper[i] : i \in 1..26} \cup {AsciiLower[i] : i \in 1..26}
        \cup {AsciiDigits[i] : i \in 1..10}
        \cup {"\n", " ", "#", "%", "+", "-", ".", "/", ":", "=", "?", "@", "_", "~", "A9", "C3"}

\* The value of a byte of a string (`c as u8` for an ASCII character).
ByteOf(b) ==
    IF \E i \in 1..26 : AsciiUpper[i] = b THEN 64 + (CHOOSE i \in 1..26 : AsciiUpper[i] = b)
    ELSE IF \E i \in 1..26 : AsciiLower[i] = b
    THEN 96 + (CHOOSE i \in 1..26 : AsciiLower[i] = b)
    ELSE IF \E i \in 1..10 : AsciiDigits[i] = b
    THEN 47 + (CHOOSE i \in 1..10 : AsciiDigits[i] = b)
    ELSE CASE b = "\n" -> 10
           [] b = " " -> 32
           [] b = "#" -> 35
           [] b = "%" -> 37
           [] b = "+" -> 43
           [] b = "-" -> 45
           [] b = "." -> 46
           [] b = "/" -> 47
           [] b = ":" -> 58
           [] b = "=" -> 61
           [] b = "?" -> 63
           [] b = "@" -> 64
           [] b = "_" -> 95
           [] b = "~" -> 126
           [] b = "A9" -> 169
           [] b = "C3" -> 195

\* str::as_bytes
BytesOf(s) == [i \in 1..Len(s) |-> ByteOf(s[i])]

\* The byte of value n, as it is written in a string.
ByteAs(n) == CHOOSE b \in Bytes : ByteOf(b) = n

(***************************************************************************)
(* Hexadecimal: `{:x}` formatting and u64::from_str_radix(_, 16).          *)
(***************************************************************************)
LowerHex == <<"0", "1", "2", "3", "4", "5", "6", "7", "8", "9", "a", "b", "c", "d", "e", "f">>
UpperHex == <<"0", "1", "2", "3", "4", "5", "6", "7", "8", "9", "A", "B", "C", "D", "E", "F">>

\* write!(.., "{:x}", len): lower-case digits, no prefix, no padding.
RECURSIVE ToHex(_)
ToHex(n) ==
    IF n < 16 THEN <<LowerHex[n + 1]>>
    ELSE ToHex(n \div 16) \o <<LowerHex[(n % 16) + 1]>>

\* char::to_digit(16): the digit's value, or -1 when the character is no hex digit.
DigitValue(c) ==
    IF \E i \in 1..16 : LowerHex[i] = c THEN (CHOOSE i \in 1..16 : LowerHex[i] = c) - 1
    ELSE IF \E i \in 1..16 : UpperHex[i] = c THEN (CHOOSE i \in 1..16 : UpperHex[i] = c) - 1
    ELSE -1

RECURSIVE DigitsValue(_, _)
DigitsValue(s, acc) ==
    IF s = <<>> THEN acc
    ELSE IF DigitValue(Head(s)) < 0 THEN -1
    ELSE DigitsValue(Tail(s), acc * 16 + DigitValue(Head(s)))

\* u64::from_str_radix(s, 16): an optional '+' and then one or more digits; -1 is Err.
\* (Lines of the model are far shorter than 16 digits, so the overflow error is out of reach.)
FromStrRadix16(s) ==
    IF s = <<>> THEN -1
    ELSE IF Head(s) \in {"+", "-"} /\ Len(s) = 1 THEN -1
    ELSE IF Head(s) = "+" THEN DigitsValue(Tail(s), 0)
    ELSE DigitsValue(s, 0)

\* A `let` of the source: the value is computed once, and what follows uses it by name.
LetIn(value, In(_)) == CHOOSE r \in {In(v) : v \in {value}} : TRUE

(***************************************************************************)
(* CrLfStream: one line of the stream.                                     *)
(***************************************************************************)
\* Index of the LF that ends the first CRLF of s, or 0.
FirstCrLf(s) ==
    IF \E i \in 2..Len(s) : s[i - 1] = CR /\ s[i] = LF
    THEN CHOOSE i \in 2..Len(s) :
            /\ s[i - 1] = CR /\ s[i] = LF
            /\ \A j \in 2..(i - 1) : ~(s[j - 1] = CR /\ s[j] = LF)
    ELSE 0

\* str::from_utf8 succeeds on the line: the two bytes of the one two-byte character of the
\* model come together and in order.
Utf8Text(s) ==
    \A i \in 1..Len(s) :
        /\ s[i] = "C3" => i < Len(s) /\ s[i + 1] = "A9"
        /\ s[i] = "A9" => i > 1 /\ s[i - 1] = "C3"

\* An inner_next that takes the end of the stream for the end of the items.
InnerNextEofEnds(s) ==
    LET e == FirstCrLf(s) IN
    IF e = 0 \/ e = 2 THEN [kind |-> "end", error |-> "none", line |-> <<>>, rest |-> Drop(s, e)]
    ELSE [kind |-> "line", error |-> "none", line |-> SubSeq(s, 1, e - 2), rest |-> Drop(s, e)]

\* CrLfStream::inner_next: bytes are taken up to the first CRLF; Ok(Some(line)) for the text
\* before it, Ok(None) if there is none, Err if it is not UTF-8 or the stream ends first.
InnerNext(s) ==
    LET e == FirstCrLf(s) IN
    IF e = 0 THEN [kind |-> "err", error |-> "UnexpectedEof", line |-> <<>>, rest |-> <<>>]
    ELSE IF e = 2 THEN [kind |-> "end", error |-> "none", line |-> <<>>, rest |-> Drop(s, 2)]
    ELSE IF ~Utf8Text(SubSeq(s, 1, e - 2))
    THEN [kind |-> "err", error |-> "Utf8Error", line |-> <<>>, rest |-> Drop(s, e)]
    ELSE [kind |-> "line", error |-> "none", line |-> SubSeq(s, 1, e - 2), rest |-> Drop(s, e)]

\* CrLfStream::expect_next: the end of the items is an error too.
ExpectNext(s) ==
    LET r == InnerNext(s) IN
    IF r.kind = "end" THEN [r EXCEPT !.kind = "err", !.error = "UnexpectedEof"] ELSE r

(***************************************************************************)
(* io::Take and the chunked body reader.                                   *)
(***************************************************************************)
\* The underlying stream's read into a buffer of `max` bytes: at most k bytes at once.
StreamRead(s, max, k) == Min(Min(max, k), Len(s))

\* Take::read without the cap at the limit: a read may run past the end of the chunk.
TakeReadPastLimit(limit, s, len, k) ==
    IF limit = 0 THEN [n |-> 0, limit |-> 0]
    ELSE LET n == StreamRead(s, len, k) IN [n |-> n, limit |-> IF n > limit THEN 0 ELSE limit - n]

\* Take::read: [n |-> bytes read, limit |-> the new limit].
TakeRead(limit, s, len, k) ==
    IF limit = 0 THEN [n |-> 0, limit |-> 0]
    ELSE LET n == StreamRead(s, Min(len, limit), k) IN [n |-> n, limit |-> limit - n]

\* HttpBodyChunk::new that reads the empty line after a size line of 0 as well.
HttpBodyChunkNewWithTrailer(s) ==
    LET l == ExpectNext(s)
        size == FromStrRadix16(l.line)
    IN  IF l.kind = "err" THEN [kind |-> "err", size |-> 0, rest |-> l.rest]
        ELSE IF size < 0 THEN [kind |-> "err", size |-> 0, rest |-> l.rest]
        ELSE IF size = 0 THEN [kind |-> "none", size |-> 0, rest |-> Drop(l.rest, 2)]
        ELSE [kind |-> "chunk", size |-> size, rest |-> l.rest]

\* HttpBodyChunk::new: the size line, then None for size 0 or a chunk of that size.
HttpBodyChunkNew(s) ==
    LET l == ExpectNext(s)
        size == FromStrRadix16(l.line)
    IN  IF l.kind = "err" THEN [kind |-> "err", size |-> 0, rest |-> l.rest]
        ELSE IF size < 0 THEN [kind |-> "err", size |-> 0, rest |-> l.rest]
        ELSE IF size = 0 THEN [kind |-> "none", size |-> 0, rest |-> l.rest]
        ELSE [kind |-> "chunk", size |-> size, rest |-> l.rest]

\* HttpChunkedBody::new
HttpChunkedBodyNew(content_length) ==
    [kind |-> "Chunked", content_length |-> content_length,
     stream |-> TRUE, chunk |-> FALSE, limit |-> 0]

Result(ret, n, data, b, s, zero) ==
    [ret |-> ret, n |-> n, data |-> data, body |-> b, input |-> s, zero |-> zero]

\* HttpChunkedBody::read(buffer) with |buffer| = len.
RECURSIVE ChunkedRead(_, _, _, _)
ChunkedRead(b, s, len, k) ==
    IF b.chunk THEN
        \* self.chunk.take(), chunk.read(buffer)
        LET t == TakeRead(b.limit, s, len, k) IN
        IF t.n = 0 THEN
            \* read_exact of the two bytes after the payload
            IF Len(s) < 2
            THEN Result("err", 0, <<>>, [b EXCEPT !.chunk = FALSE, !.limit = 0], <<>>, FALSE)
            ELSE ChunkedRead([b EXCEPT !.chunk = FALSE, !.stream = TRUE, !.limit = 0],
                             Drop(s, 2), len, k)
        ELSE Result("ok", t.n, SubSeq(s, 1, t.n), [b EXCEPT !.limit = t.limit],
                    Drop(s, t.n), FALSE)
    ELSE IF b.stream THEN
        \* self.stream.take(), HttpBodyChunk::new(stream)
        LET c == HttpBodyChunkNew(s) IN
        IF c.kind = "err"
        THEN Result("err", 0, <<>>, [b EXCEPT !.stream = FALSE], c.rest, FALSE)
        ELSE IF c.kind = "none"
        THEN Result("ok", 0, <<>>, [b EXCEPT !.stream = FALSE], c.rest, TRUE)
        ELSE ChunkedRead([b EXCEPT !.stream = FALSE, !.chunk = TRUE, !.limit = c.size],
                         c.rest, len, k)
    ELSE Result("ok", 0, <<>>, b, s, FALSE)

\* HttpBody::new with the precedence swapped: a content-length wins over chunked.
HttpBodyNewLengthFirst(encoding, content_length) ==
    IF content_length # None
    THEN [kind |-> "Limited", content_length |-> None,
          stream |-> TRUE, chunk |-> FALSE, limit |-> content_length[1]]
    ELSE IF encoding = Some("chunked") THEN HttpChunkedBodyNew(content_length)
    ELSE [kind |-> "ReadTilClose", content_length |-> None,
          stream |-> TRUE, chunk |-> FALSE, limit |-> 0]

\* HttpBody::new(encoding, content_length, body)
HttpBodyNew(encoding, content_length) ==
    IF encoding = Some("chunked") THEN HttpChunkedBodyNew(content_length)
    ELSE IF content_length # None
    THEN [kind |-> "Limited", content_length |-> None,
          stream |-> TRUE, chunk |-> FALSE, limit |-> content_length[1]]
    ELSE [kind |-> "ReadTilClose", content_length |-> None,
          stream |-> TRUE, chunk |-> FALSE, limit |-> 0]

\* HttpBody::content_length
ContentLength(b) ==
    CASE b.kind = "Chunked" -> b.content_length
      [] b.kind = "Limited" -> Some(b.limit)
      [] b.kind = "ReadTilClose" -> None

\* HttpBody::require_length letting every body through.
RequireLengthAny(b) == TRUE

\* HttpBody::require_length: TRUE is Ok(()), FALSE is Err(Error::LengthRequired).
RequireLength(b) == b.kind \in {"Chunked", "Limited"}

\* Take::read on a Limited body whose limit is never counted down.
LimitedReadNoCount(b, s, len, k) ==
    LET n == StreamRead(s, Min(len, b.limit), k) IN
    Result("ok", n, SubSeq(s, 1, n), b, Drop(s, n), FALSE)

\* HttpLimitedBody (io::Take<BufReader<S>>) read
LimitedRead(b, s, len, k) ==
    LET t == TakeRead(b.limit, s, len, k) IN
    Result("ok", t.n, SubSeq(s, 1, t.n), [b EXCEPT !.limit = t.limit], Drop(s, t.n), FALSE)

\* HttpReadTilCloseBody (BufReader<S>) read
ReadTilCloseRead(b, s, len, k) ==
    LET n == StreamRead(s, len, k) IN
    Result("ok", n, SubSeq(s, 1, n), b, Drop(s, n), FALSE)

\* HttpBody::read
HttpBodyRead(b, s, len, k) ==
    CASE b.kind = "Chunked" -> ChunkedRead(b, s, len, k)
      [] b.kind = "Limited" -> LimitedRead(b, s, len, k)
      [] b.kind = "ReadTilClose" -> ReadTilCloseRead(b, s, len, k)

(***************************************************************************)
(* The sending side: HttpRequest::serialize, OutgoingRequest, OutgoingBody *)
(* over a BufWriter.  The request line and each header line are single     *)
(* elements of the byte string; body bytes are bytes.                      *)
(***************************************************************************)
Methods == {"DELETE", "GET", "HEAD", "OPTIONS", "POST", "PUT", "TRACE"}

\* HttpMethod::has_body with DELETE left out.
HasBodyPostPut(m) == m \in {"POST", "PUT"}

\* HttpMethod::has_body
HasBody(m) == m \in {"DELETE", "POST", "PUT"}

NoWrite == [buf |-> <<>>, ret |-> "none", n |-> 0]

\* No request has been built: a fresh BufWriter over a fresh socket.
NewClient ==
    [method |-> "GET", variant |-> "unsent", writes |-> 0, bw |-> <<>>, wire |-> <<>>,
     flushed |-> FALSE, written |-> <<>>, lastWrite |-> NoWrite, responseReads |-> 0]

\* Every byte written to the BufWriter so far, in order.
Out(c) == c.wire \o c.bw

\* What a BufWriter may do with a write: keep it in its buffer, write the buffer out
\* first and keep the new bytes, or write everything through (the built-in BufWriter
\* of io.rs always writes through).
SpillModes == {"keep", "flushOld", "through"}

\* BufWriter::write_all(bytes)
BufWrite(c, bytes, spill) ==
    CASE spill = "keep" -> [c EXCEPT !.bw = c.bw \o bytes]
      [] spill = "flushOld" ->
            [c EXCEPT !.wire = c.wire \o c.bw, !.bw = bytes,
                      !.flushed = IF c.bw = <<>> THEN c.flushed ELSE FALSE]
      [] spill = "through" ->
            [c EXCEPT !.wire = c.wire \o c.bw \o bytes, !.bw = <<>>,
                      !.flushed = IF c.bw \o bytes = <<>> THEN c.flushed ELSE FALSE]

\* One write_all per piece, each with its own spill mode.
RECURSIVE BufWriteAll(_, _, _)
BufWriteAll(c, pieces, spills) ==
    IF pieces = <<>> THEN c
    ELSE BufWriteAll(BufWrite(c, Head(pieces), Head(spills)), Tail(pieces), Tail(spills))

\* BufWriter::into_inner: what is buffered goes to the socket.
BufIntoInner(c) ==
    [c EXCEPT !.wire = c.wire \o c.bw, !.bw = <<>>,
              !.flushed = IF c.bw = <<>> THEN c.flushed ELSE FALSE]

\* BufWriter::flush: the buffer is written out and the socket flushed.
BufFlush(c) == [c EXCEPT !.wire = c.wire \o c.bw, !.bw = <<>>, !.flushed = TRUE]

\* The header lines HttpRequestBuilder::new gives the request that matter for framing.
HeaderLines(m) == IF HasBody(m) THEN <<"transfer-encoding: chunked", CR, LF>> ELSE <<>>

\* The three writes of HttpRequest::serialize: request line, headers, empty line.
RequestHead(m) == << <<m, " ", "/", " ", "HTTP/1.1", CR, LF>>, HeaderLines(m), CRLF >>

\* OutgoingBody::write without the closing CRLF of the chunk.
OutgoingBodyPiecesNoCrLf(buf) ==
    IF Len(buf) = 0 THEN <<>> ELSE << ToHex(Len(buf)) \o CRLF, buf >>

\* OutgoingBody::write without the early return for an empty buffer.
OutgoingBodyPiecesNoEmptyCheck(buf) == << ToHex(Len(buf)) \o CRLF, buf, CRLF >>

\* The writes of OutgoingBody::write(buf): size line, payload, CRLF; none for an empty buf.
OutgoingBodyPieces(buf) ==
    IF Len(buf) = 0 THEN <<>> ELSE << ToHex(Len(buf)) \o CRLF, buf, CRLF >>

\* The write of OutgoingBody::finish.
Terminator == <<"0", CR, LF, CR, LF>>

(***************************************************************************)
(* The server: HttpServer::serve_one.                                      *)
(***************************************************************************)
\* A server that has not been asked to serve yet.
NewServer ==
    [pc |-> "accept", method |-> "GET", uri |-> "/", parses |-> TRUE, calls |-> <<>>,
     response |-> None, out |-> <<>>, result |-> "none", events |-> <<>>,
     writeFailed |-> FALSE, forever |-> FALSE, prev |-> "none", handled |-> FALSE]

\* The conversion without the arm for LengthRequired: every error is a 500.
FromErrorAlways500(e) == [status |-> "500 Internal Server Error", text |-> e]

\* impl From<Error> for HttpResponse
FromError(e) ==
    IF e = "LengthRequired"
    THEN [status |-> "411 Length Required", text |-> "length required"]
    ELSE [status |-> "500 Internal Server Error", text |-> e]

\* What a handler operation may return: a response of its own, the default
\* 405 response, or one of its errors.
HandlerResults == {"200", "405", "LengthRequired", "Other"}

\* The handler's Result turned into the response, the error through Into<HttpResponse>.
HandlerResponse(r) ==
    CASE r = "200" -> [status |-> "200 OK", text |-> "hello from server"]
      [] r = "405" -> [status |-> "405 Method Not Allowed", text |-> "not allowed"]
      [] OTHER -> FromError(r)

\* HttpResponse::serialize: status line, headers (none are set), empty line.
ResponseHead(r) == <<"HTTP/1.1", " ", r.status, CR, LF>> \o CRLF

(***************************************************************************)
(* The parts of the state that stay as they are in a run that does not use *)
(* them.                                                                   *)
(***************************************************************************)
\* HttpClient::new: an empty cache; no call has been made, no stream connected.
NoCall == [api |-> "none", ret |-> "none", error |-> "", id |-> <<>>, stream |-> 0,
           line |-> <<>>, status |-> <<>>]

NewHttpClient ==
    [streams |-> {}, connects |-> <<>>, wires |-> <<>>, reads |-> <<>>, calls |-> 0,
     last |-> NoCall, failed |-> {}, inFlight |-> FALSE]

\* A stream on which no request has been sent.
NoKeepAlive ==
    [phase |-> "idle", sock |-> <<>>, sent |-> <<>>, results |-> <<>>, status |-> "",
     body |-> [kind |-> "ReadTilClose", content_length |-> <<>>, stream |-> TRUE,
               chunk |-> FALSE, limit |-> 0],
     got |-> <<>>, dropped |-> <<>>]

\* No Parser has been made.
NoParser == [s |-> <<>>, position |-> 0, op |-> "none", ret |-> "none"]

\* HttpHeaders::new: an empty map; nothing inserted, nothing looked up.
NoHeaders ==
    [map |-> {}, log |-> <<>>, got |-> <<>>, how |-> "new", given |-> <<>>, ret |-> "ok"]

\* No connection has been made.
\* A Url with nothing in it (what stands where a parse gave none).
EmptyUrl ==
    [scheme |-> [variant |-> "Other", name |-> <<>>], authority |-> <<>>, port |-> <<>>,
     path |-> [components |-> <<>>, trailing_slash |-> FALSE], query |-> <<>>,
     fragment |-> <<>>, user_information |-> <<>>]

NoUrl ==
    [s |-> <<>>, step |-> "none", parsed |-> [ret |-> "none", url |-> EmptyUrl],
     text |-> <<>>, again |-> [ret |-> "none", url |-> EmptyUrl]]

NoStatus == [code |-> 0, status |-> <<>>, back |-> <<>>]

\* No bytes have been read.
NoWire == [what |-> "none", given |-> <<>>, sent |-> <<>>, got |-> <<>>]

NoExchange ==
    [connected |-> FALSE, spc |-> "accept", sent |-> 0, rd |-> 0, osent |-> 0, ord |-> 0,
     inbuf |-> <<>>, cbuf |-> <<>>, handlerGot |-> <<>>, respBody |-> <<>>,
     closed |-> FALSE, got |-> <<>>, result |-> "none"]

(***************************************************************************)
(* The streams the chunked reader is run on.                               *)
(***************************************************************************)
PayloadByte(i) == IF i % 2 = 1 THEN "a" ELSE "b"

\* Short payloads, and a payload that looks like the end of the body.
Payloads ==
    { [i \in 1..n |-> PayloadByte(i)] : n \in 1..MaxPayload } \cup { <<"0", CR, LF>> }

\* A payload whose size takes two hex digits.
LongPayload == [i \in 1..LongLen |-> "x"]

ChunkLists == UNION { [1..n -> Payloads] : n \in 1..MaxChunks } \cup { <<LongPayload>> }

Styles == {"lower", "upper", "padded", "plus", "nonhex"}

Upper(c) == IF DigitValue(c) >= 10 THEN UpperHex[DigitValue(c) + 1] ELSE c

SizeLine(n, style) ==
    CASE style = "lower" -> ToHex(n)
      [] style = "upper" -> [i \in 1..Len(ToHex(n)) |-> Upper(ToHex(n)[i])]
      [] style = "padded" -> <<"0">> \o ToHex(n)
      [] style = "plus" -> <<"+">> \o ToHex(n)
      [] style = "nonhex" -> ToHex(n) \o <<"g">>

ChunkBytes(p, style) == SizeLine(Len(p), style) \o CRLF \o p \o CRLF

RECURSIVE EncodeChunks(_, _)
EncodeChunks(cs, style) ==
    IF cs = <<>> THEN <<>>
    ELSE ChunkBytes(Head(cs), style) \o EncodeChunks(Tail(cs), style)

\* The chunks, the zero-size line, and the empty line the writer puts after it.
FullStream(cs, style) ==
    EncodeChunks(cs, style) \o SizeLine(0, IF style = "nonhex" THEN "lower" ELSE style)
        \o CRLF \o CRLF

\* Number of bytes up to and including the zero-size line.
ZeroLineEnd(cs, style) == Len(FullStream(cs, style)) - 2

Sources ==
    { [chunks |-> cs, style |-> st, cut |-> Len(FullStream(cs, st))] :
        cs \in ChunkLists, st \in Styles }
    \cup
    UNION { { [chunks |-> cs, style |-> "lower", cut |-> c] :
                c \in 0..(Len(FullStream(cs, "lower")) - 1) } : cs \in ChunkLists }

StreamOf(s) == SubSeq(FullStream(s.chunks, s.style), 1, s.cut)

NoHist == [anyEmpty |-> FALSE, errored |-> FALSE, zeroSeen |-> FALSE, len |-> 0]

InitChunked ==
    /\ src \in Sources
    /\ input = StreamOf(src)
    /\ body = HttpChunkedBodyNew(None)
    /\ delivered = <<>>
    /\ lastRet = "none"
    /\ hist = NoHist
    /\ hdr = [encoding |-> Some("chunked"), content_length |-> None]
    /\ pc = "body"
    /\ client = NewClient
    /\ server = NewServer
    /\ exch = NoExchange
    /\ httpClient = NewHttpClient
    /\ keep = NoKeepAlive
    /\ parser = NoParser
    /\ headers = NoHeaders
    /\ urlRun = NoUrl
    /\ statusRun = NoStatus
    /\ wire = NoWire

RetKind(r) == IF r.ret = "err" THEN "err" ELSE IF r.n = 0 THEN "end" ELSE "data"

\* One call of read on the body, with a buffer of len bytes.
BodyRead ==
    \E len \in 0..MaxBuf, k \in 1..MaxBuf :
        /\ pc = "body"
        /\ k <= (IF len = 0 THEN 1 ELSE len)
        /\ LET r == HttpBodyRead(body, input, len, k) IN
           /\ body' = r.body
           /\ input' = r.input
           /\ delivered' = delivered \o r.data
           /\ lastRet' = RetKind(r)
           /\ hist' = [anyEmpty |-> hist.anyEmpty \/ len = 0,
                       errored |-> hist.errored \/ r.ret = "err",
                       zeroSeen |-> hist.zeroSeen \/ r.zero,
                       len |-> len]
           /\ UNCHANGED <<src, hdr, pc, client, server, exch, httpClient, keep, parser, headers,
                          urlRun, statusRun, wire>>

NextRead == BodyRead

SpecChunked == InitChunked /\ [][NextRead]_vars

(***************************************************************************)
(* A body built by HttpBody::new from the two header values, over a stream *)
(* of raw bytes.                                                           *)
(***************************************************************************)
Encodings == {None, Some("chunked"), Some("Chunked"), Some("gzip, chunked"), Some("identity")}

Lengths == {None} \cup { Some(n) : n \in 0..MaxLength }

\* One-chunk streams, whole and cut short at every length.
BodySources == { s \in Sources : s.style = "lower" /\ Len(s.chunks) = 1 }

InitBody ==
    /\ src \in BodySources
    /\ hdr \in [encoding : Encodings, content_length : Lengths]
    /\ input = StreamOf(src)
    /\ body = HttpBodyNew(hdr.encoding, hdr.content_length)
    /\ delivered = <<>>
    /\ lastRet = "none"
    /\ hist = NoHist
    /\ pc = "body"
    /\ client = NewClient
    /\ server = NewServer
    /\ exch = NoExchange
    /\ httpClient = NewHttpClient
    /\ keep = NoKeepAlive
    /\ parser = NoParser
    /\ headers = NoHeaders
    /\ urlRun = NoUrl
    /\ statusRun = NoStatus
    /\ wire = NoWire

SpecBody == InitBody /\ [][NextRead]_vars

(***************************************************************************)
(* A request sent by the client and its body decoded by the peer.          *)
(***************************************************************************)
NoSource == [chunks |-> <<>>, style |-> "lower", cut |-> 0]

InitRequest ==
    /\ pc = "build"
    /\ client = NewClient
    /\ src = NoSource
    /\ input = <<>>
    /\ hdr = [encoding |-> None, content_length |-> None]
    /\ body = HttpBodyNew(None, None)
    /\ delivered = <<>>
    /\ lastRet = "none"
    /\ hist = NoHist
    /\ server = NewServer
    /\ exch = NoExchange
    /\ httpClient = NewHttpClient
    /\ keep = NoKeepAlive
    /\ parser = NoParser
    /\ headers = NoHeaders
    /\ urlRun = NoUrl
    /\ statusRun = NoStatus
    /\ wire = NoWire

Spills3 == [1..3 -> SpillModes]

WriteBufs == Payloads \cup {LongPayload, <<>>}

\* HttpRequest::serialize(BufWriter::new(socket))
Serialize ==
    \E m \in Methods, sp \in Spills3 :
        /\ pc = "build"
        /\ LET c == BufWriteAll([client EXCEPT !.method = m], RequestHead(m), sp) IN
           client' = IF HasBody(m)
                     THEN [c EXCEPT !.variant = "WithBody"]
                     ELSE [BufIntoInner(c) EXCEPT !.variant = "NoBody"]
        /\ pc' = "open"
        /\ UNCHANGED <<src, input, body, delivered, lastRet, hist, hdr, server, exch, httpClient,
                       keep, parser, headers, urlRun, statusRun, wire>>

\* OutgoingRequest::write(buf)
Write ==
    \E buf \in WriteBufs, sp \in Spills3 :
        /\ pc = "open"
        /\ client.writes < MaxChunks
        /\ client' =
              IF client.variant = "NoBody"
              THEN [client EXCEPT !.writes = @ + 1,
                                  !.lastWrite = [buf |-> buf, ret |-> "err", n |-> 0]]
              ELSE [BufWriteAll(client, OutgoingBodyPieces(buf), sp) EXCEPT
                        !.writes = @ + 1,
                        !.written = @ \o buf,
                        !.lastWrite = [buf |-> buf, ret |-> "ok", n |-> Len(buf)]]
        /\ UNCHANGED <<pc, src, input, body, delivered, lastRet, hist, hdr, server, exch,
                       httpClient, keep, parser, headers, urlRun, statusRun, wire>>

\* OutgoingBody::finish, first statement: the zero-size chunk and the empty line.
FinishTerminator ==
    \E spill \in SpillModes :
        /\ pc = "open"
        /\ client.variant = "WithBody"
        /\ client' = BufWrite(client, Terminator, spill)
        /\ pc' = "flush"
        /\ UNCHANGED <<src, input, body, delivered, lastRet, hist, hdr, server, exch, httpClient,
                       keep, parser, headers, urlRun, statusRun, wire>>

\* finish going on to read the response with the BufWriter's buffer left as it is.
FinishNoFlush ==
    /\ pc = "flush" \/ (pc = "open" /\ client.variant = "NoBody")
    /\ pc' = "read"
    /\ UNCHANGED <<client, src, input, body, delivered, lastRet, hist, hdr, server, exch,
                   httpClient, keep, parser, headers, urlRun, statusRun, wire>>

\* The flush of OutgoingBody::finish and of OutgoingRequest::finish for NoBody.
FinishFlush ==
    /\ pc = "flush" \/ (pc = "open" /\ client.variant = "NoBody")
    /\ client' = BufFlush(client)
    /\ pc' = "read"
    /\ UNCHANGED <<src, input, body, delivered, lastRet, hist, hdr, server, exch, httpClient, keep,
                   parser, headers, urlRun, statusRun, wire>>

\* HttpResponse::deserialize(socket): the first read of the response.
ReadResponse ==
    /\ pc = "read"
    /\ client' = [client EXCEPT !.responseReads = @ + 1]
    /\ pc' = "done"
    /\ UNCHANGED <<src, input, body, delivered, lastRet, hist, hdr, server, exch, httpClient, keep,
                   parser, headers, urlRun, statusRun, wire>>

\* Number of elements of the request head on the wire.
HeadLen(m) == Len(Flatten(RequestHead(m)))

\* The peer builds an HttpChunkedBody over the body bytes that reached the wire.
PeerDecode ==
    /\ pc = "done"
    /\ client.variant = "WithBody"
    /\ input' = Drop(client.wire, HeadLen(client.method))
    /\ hdr' = [encoding |-> Some("chunked"), content_length |-> None]
    /\ body' = HttpBodyNew(hdr'.encoding, hdr'.content_length)
    /\ pc' = "body"
    /\ UNCHANGED <<client, src, delivered, lastRet, hist, server, exch, httpClient, keep, parser,
                   headers, urlRun, statusRun, wire>>

NextRequest ==
    \/ Serialize
    \/ Write
    \/ FinishTerminator
    \/ FinishFlush
    \/ ReadResponse
    \/ PeerDecode
    \/ BodyRead

SpecRequest == InitRequest /\ [][NextRequest]_vars

(***************************************************************************)
(* One serve_one call on a request whose header block says how its body is *)
(* framed.                                                                 *)
(***************************************************************************)
InitServer ==
    /\ pc = "server"
    /\ server = NewServer
    /\ client = NewClient
    /\ src = NoSource
    /\ input = <<>>
    /\ hdr = [encoding |-> None, content_length |-> None]
    /\ body = HttpBodyNew(None, None)
    /\ delivered = <<>>
    /\ lastRet = "none"
    /\ hist = NoHist
    /\ exch = NoExchange
    /\ httpClient = NewHttpClient
    /\ keep = NoKeepAlive
    /\ parser = NoParser
    /\ headers = NoHeaders
    /\ urlRun = NoUrl
    /\ statusRun = NoStatus
    /\ wire = NoWire

Uris == {"/", "/x"}

\* self.connection_stream.accept()?: a stream carrying one request, or an error.
Accept ==
    /\ pc = "server"
    /\ server.pc = "accept"
    /\ \/ \E m \in Methods, u \in Uris, h \in [encoding : Encodings, content_length : Lengths],
             ok \in BOOLEAN :
              /\ server' = [server EXCEPT !.pc = "deserialize", !.method = m, !.uri = u,
                                          !.parses = ok, !.events = Append(@, "accept")]
              /\ hdr' = h
       \/ /\ server' = [server EXCEPT !.pc = "done", !.result = "err"]
          /\ hdr' = hdr
    /\ UNCHANGED <<pc, client, src, input, body, delivered, lastRet, hist, exch, httpClient, keep,
                   parser, headers, urlRun, statusRun, wire>>

\* HttpRequest::deserialize in serve_one_inner: the request, its body built from
\* the headers; an error becomes the response.
Deserialize ==
    /\ pc = "server"
    /\ server.pc = "deserialize"
    /\ IF server.parses
       THEN /\ body' = HttpBodyNew(hdr.encoding, hdr.content_length)
            /\ server' = [server EXCEPT !.pc = "dispatch", !.events = Append(@, "read")]
       ELSE /\ body' = body
            /\ server' = [server EXCEPT !.pc = "respond", !.events = Append(@, "read"),
                                         !.response = Some(FromError("ParseError"))]
    /\ UNCHANGED <<pc, client, src, input, hdr, delivered, lastRet, hist, exch, httpClient, keep,
                   parser, headers, urlRun, statusRun, wire>>

\* The match on request.method with post handed to the handler's put.
DispatchPostAsPut ==
    \E r \in HandlerResults :
        /\ pc = "server"
        /\ server.pc = "dispatch"
        /\ server' =
              IF server.method \in {"POST", "PUT"} /\ ~RequireLength(body)
              THEN [server EXCEPT !.pc = "respond",
                                  !.response = Some(FromError("LengthRequired"))]
              ELSE [server EXCEPT !.pc = "respond",
                                  !.calls = Append(@, [op |-> IF server.method = "POST"
                                                              THEN "PUT" ELSE server.method,
                                                       uri |-> server.uri,
                                                       body |-> body.kind, ret |-> r]),
                                  !.events = Append(@, "handler"),
                                  !.handled = TRUE,
                                  !.response = Some(HandlerResponse(r))]
        /\ UNCHANGED <<pc, client, src, input, body, hdr, delivered, lastRet, hist, exch,
                       httpClient, keep, parser, headers, urlRun, statusRun, wire>>

\* The match on request.method in serve_one_inner.
Dispatch ==
    \E r \in HandlerResults :
        /\ pc = "server"
        /\ server.pc = "dispatch"
        /\ server' =
              IF server.method \in {"POST", "PUT"} /\ ~RequireLength(body)
              THEN [server EXCEPT !.pc = "respond",
                                  !.response = Some(FromError("LengthRequired"))]
              ELSE [server EXCEPT !.pc = "respond",
                                  !.calls = Append(@, [op |-> server.method,
                                                       uri |-> server.uri,
                                                       body |-> body.kind, ret |-> r]),
                                  !.events = Append(@, "handler"),
                                  !.handled = TRUE,
                                  !.response = Some(HandlerResponse(r))]
        /\ UNCHANGED <<pc, client, src, input, body, hdr, delivered, lastRet, hist, exch,
                       httpClient, keep, parser, headers, urlRun, statusRun, wire>>

\* response.serialize(&mut stream)?: the head is written, or the write fails.
WriteResponseHead ==
    \E ok \in BOOLEAN :
        /\ pc = "server"
        /\ server.pc = "respond"
        /\ server' =
              IF ok
              THEN [server EXCEPT !.pc = "copy", !.events = Append(@, "head"),
                                  !.out = @ \o ResponseHead(server.response[1])]
              ELSE [server EXCEPT !.pc = "done", !.result = "err", !.writeFailed = TRUE]
        /\ UNCHANGED <<pc, client, src, input, body, hdr, delivered, lastRet, hist, exch,
                       httpClient, keep, parser, headers, urlRun, statusRun, wire>>

\* io::copy(&mut response.body, &mut stream)?: the body is copied, or a write fails.
CopyResponseBody ==
    \E ok \in BOOLEAN :
        /\ pc = "server"
        /\ server.pc = "copy"
        /\ server' =
              IF ok
              THEN [server EXCEPT !.pc = "done", !.events = Append(@, "body"),
                                  !.out = @ \o <<server.response[1].text>>,
                                  !.result = "ok"]
              ELSE [server EXCEPT !.pc = "done", !.result = "err", !.writeFailed = TRUE]
        /\ UNCHANGED <<pc, client, src, input, body, hdr, delivered, lastRet, hist, exch,
                       httpClient, keep, parser, headers, urlRun, statusRun, wire>>

NextServer ==
    \/ Accept
    \/ Deserialize
    \/ Dispatch
    \/ WriteResponseHead
    \/ CopyResponseBody

SpecServer == InitServer /\ [][NextServer]_vars

(***************************************************************************)
(* serve_forever: serve_one in a loop.                                     *)
(***************************************************************************)
InitForever ==
    /\ pc = "server"
    /\ server = [NewServer EXCEPT !.forever = TRUE]
    /\ client = NewClient
    /\ src = NoSource
    /\ input = <<>>
    /\ hdr = [encoding |-> None, content_length |-> None]
    /\ body = HttpBodyNew(None, None)
    /\ delivered = <<>>
    /\ lastRet = "none"
    /\ hist = NoHist
    /\ exch = NoExchange
    /\ httpClient = NewHttpClient
    /\ keep = NoKeepAlive
    /\ parser = NoParser
    /\ headers = NoHeaders
    /\ urlRun = NoUrl
    /\ statusRun = NoStatus
    /\ wire = NoWire

\* A loop that goes round again only after a serve_one that returned Ok.
ServeAgainStopOnError ==
    /\ pc = "server"
    /\ server.forever
    /\ server.pc = "done"
    /\ server.result = "ok"
    /\ server' = [NewServer EXCEPT !.forever = TRUE, !.prev = server.result,
                                   !.handled = server.handled]
    /\ hdr' = [encoding |-> None, content_length |-> None]
    /\ body' = HttpBodyNew(None, None)
    /\ UNCHANGED <<pc, client, src, input, delivered, lastRet, hist, exch, httpClient, keep, parser,
                   headers, urlRun, statusRun, wire>>

\* The loop of serve_forever: the result of serve_one is logged when it is an error,
\* and serve_one is called again on the same server and handler (the request and the
\* stream of the call before are dropped).
ServeAgain ==
    /\ pc = "server"
    /\ server.forever
    /\ server.pc = "done"
    /\ server' = [NewServer EXCEPT !.forever = TRUE, !.prev = server.result,
                                   !.handled = server.handled]
    /\ hdr' = [encoding |-> None, content_length |-> None]
    /\ body' = HttpBodyNew(None, None)
    /\ UNCHANGED <<pc, client, src, input, delivered, lastRet, hist, exch, httpClient, keep, parser,
                   headers, urlRun, statusRun, wire>>

NextForever ==
    \/ Accept
    \/ Deserialize
    \/ Dispatch
    \/ WriteResponseHead
    \/ CopyResponseBody
    \/ ServeAgain

SpecForever == InitForever /\ [][NextForever]_vars

\* The loop statement is the server's own control flow: once serve_one has returned,
\* the next iteration is not held up by anything outside the server.
SpecForeverFair == SpecForever /\ WF_vars(ServeAgain)

(***************************************************************************)
(* A one-shot client call (client::get, client::put: send_request) and a   *)
(* serve_one call on the two ends of one connection.  Each direction is a  *)
(* pipe that holds at most PipeCap elements: a write_all on a socket is    *)
(* over when the pipe has taken every element, a read blocks while the     *)
(* pipe is empty and the other end is open.  A reader that is blocked has  *)
(* taken what it could: inbuf and cbuf hold what the server and the client *)
(* have read off their sockets and not yet made into a result.             *)
(***************************************************************************)
PipeCap == 2

\* The lines of a message head: every line up to the empty line.
RECURSIVE ReadLines(_, _)
ReadLines(s, acc) ==
    LET r == InnerNext(s) IN
    IF r.kind = "err" THEN [kind |-> "err", lines |-> acc, rest |-> <<>>]
    ELSE IF r.kind = "end" THEN [kind |-> "ok", lines |-> acc, rest |-> r.rest]
    ELSE ReadLines(r.rest, Append(acc, r.line))

\* headers.get("Transfer-Encoding") on the header lines of a head.
GetEncoding(lines) ==
    IF \E i \in 2..Len(lines) : lines[i] = <<"transfer-encoding: chunked">>
    THEN Some("chunked") ELSE None

\* HttpRequest::deserialize: method and uri of the request line, the body framing.
HttpRequestDeserialize(s) ==
    LET h == ReadLines(s, <<>>) IN
    IF h.kind = "err" \/ h.lines = <<>>
    THEN [kind |-> "err", method |-> "", uri |-> "", encoding |-> None, rest |-> <<>>]
    ELSE [kind |-> "ok", method |-> h.lines[1][1], uri |-> h.lines[1][3],
          encoding |-> GetEncoding(h.lines), rest |-> h.rest]

\* What the client has handed to its socket and the pipe has not taken yet is none.
ClientSocketIdle == exch.sent = Len(client.wire)

ServerSocketIdle == exch.osent = Len(server.out)

\* The bytes in the pipe towards the server, and towards the client.
RequestPipe == SubSeq(client.wire, exch.rd + 1, exch.sent)

ResponsePipe == SubSeq(server.out, exch.ord + 1, exch.osent)

OneShotMethods == {"GET", "PUT"}

\* The statuses and bodies the handler of this run answers with.
ExchangeStatuses == {"200 OK", "404 Not Found"}

InitExchange ==
    /\ pc = "build"
    /\ client = NewClient
    /\ server = NewServer
    /\ exch = NoExchange
    /\ src = NoSource
    /\ input = <<>>
    /\ hdr = [encoding |-> None, content_length |-> None]
    /\ body = HttpBodyNew(None, None)
    /\ delivered = <<>>
    /\ lastRet = "none"
    /\ hist = NoHist
    /\ httpClient = NewHttpClient
    /\ keep = NoKeepAlive
    /\ parser = NoParser
    /\ headers = NoHeaders
    /\ urlRun = NoUrl
    /\ statusRun = NoStatus
    /\ wire = NoWire

\* <TcpStream as StreamConnector>::connect in send_request.
Connect ==
    /\ pc = "build"
    /\ ~exch.connected
    /\ exch' = [exch EXCEPT !.connected = TRUE]
    /\ UNCHANGED <<pc, client, server, src, input, body, delivered, lastRet, hist, hdr, httpClient,
                   keep, parser, headers, urlRun, statusRun, wire>>

\* The kernel moves one element of what the client wrote into the pipe; a pipe whose
\* reader is gone takes anything.
TransferRequest ==
    /\ exch.sent < Len(client.wire)
    /\ exch.sent - exch.rd < PipeCap \/ exch.closed
    /\ exch' = [exch EXCEPT !.sent = @ + 1]
    /\ UNCHANGED <<pc, client, server, src, input, body, delivered, lastRet, hist, hdr, httpClient,
                   keep, parser, headers, urlRun, statusRun, wire>>

\* The same for what the server wrote.
TransferResponse ==
    /\ exch.osent < Len(server.out)
    /\ exch.osent - exch.ord < PipeCap \/ pc = "end"
    /\ exch' = [exch EXCEPT !.osent = @ + 1]
    /\ UNCHANGED <<pc, client, server, src, input, body, delivered, lastRet, hist, hdr, httpClient,
                   keep, parser, headers, urlRun, statusRun, wire>>

\* The client's steps up to the flush: builder.send, the writes of io::copy, finish.
ClientSend ==
    /\ exch.connected
    /\ ClientSocketIdle
    /\ \/ Serialize /\ client'.method \in OneShotMethods
       \/ Write /\ client.variant = "WithBody" /\ client'.lastWrite.buf \in Payloads
       \/ FinishTerminator
       \/ FinishFlush

\* The server's read is short of bytes: the head is not all there, or the chunked body
\* reader has run out in the middle of a chunk or a line.
ServerBlocked ==
    \/ exch.spc = "accept" /\ HttpRequestDeserialize(exch.inbuf).kind = "err"
    \/ exch.spc = "handler" /\ HttpBodyRead(body, exch.inbuf, 1, 1).ret = "err"

\* The read on the socket that a blocked server is in returns an element.
ServerPull ==
    /\ exch.connected
    /\ ServerBlocked
    /\ RequestPipe # <<>>
    /\ exch' = [exch EXCEPT !.inbuf = Append(@, RequestPipe[1]), !.rd = @ + 1]
    /\ UNCHANGED <<pc, client, server, src, input, body, delivered, lastRet, hist, hdr, httpClient,
                   keep, parser, headers, urlRun, statusRun, wire>>

\* connection_stream.accept() and HttpRequest::deserialize, once the whole head is there.
ServerReadRequest ==
    LET r == HttpRequestDeserialize(exch.inbuf) IN
    /\ exch.connected
    /\ exch.spc = "accept"
    /\ r.kind = "ok"
    /\ server' = [server EXCEPT !.method = r.method, !.uri = r.uri,
                                !.events = <<"accept", "read">>]
    /\ body' = HttpBodyNew(r.encoding, None)
    /\ hdr' = [encoding |-> r.encoding, content_length |-> None]
    /\ exch' = [exch EXCEPT !.spc = "dispatch", !.inbuf = r.rest]
    /\ UNCHANGED <<pc, client, src, input, delivered, lastRet, hist, httpClient, keep, parser,
                   headers, urlRun, statusRun, wire>>

\* The match of serve_one_inner for GET: the handler's get is called and answers.
ServerGet ==
    \E st \in ExchangeStatuses, b \in Payloads :
        /\ exch.spc = "dispatch"
        /\ server.method = "GET"
        /\ server' = [server EXCEPT
                !.calls = Append(@, [op |-> "GET", uri |-> server.uri, body |-> body.kind,
                                     ret |-> st]),
                !.events = Append(@, "handler"),
                !.handled = TRUE,
                !.response = Some([status |-> st, text |-> ""])]
        /\ exch' = [exch EXCEPT !.spc = "respond", !.respBody = b]
        /\ UNCHANGED <<pc, client, src, input, body, delivered, lastRet, hist, hdr, httpClient,
                       keep, parser, headers, urlRun, statusRun, wire>>

\* For PUT: require_length, then the handler's put, which reads the body to its end.
ServerPutStart ==
    /\ exch.spc = "dispatch"
    /\ server.method = "PUT"
    /\ RequireLength(body)
    /\ exch' = [exch EXCEPT !.spc = "handler"]
    /\ UNCHANGED <<pc, client, server, src, input, body, delivered, lastRet, hist, hdr, httpClient,
                   keep, parser, headers, urlRun, statusRun, wire>>

\* One read of the handler on the request body, when it is not short of bytes; at
\* Ok(0) the handler returns its response.
HandlerRead ==
    \E len \in {1, MaxBuf} :
        LET r == HttpBodyRead(body, exch.inbuf, len, len) IN
        /\ exch.spc = "handler"
        /\ r.ret = "ok"
        /\ body' = r.body
        /\ IF r.n = 0
           THEN /\ \E st \in ExchangeStatuses, b \in Payloads :
                     /\ server' = [server EXCEPT
                            !.calls = Append(@, [op |-> "PUT", uri |-> server.uri,
                                                 body |-> body.kind, ret |-> st]),
                            !.events = Append(@, "handler"),
                            !.handled = TRUE,
                            !.response = Some([status |-> st, text |-> ""])]
                     /\ exch' = [exch EXCEPT !.spc = "respond", !.respBody = b,
                                             !.inbuf = r.input]
           ELSE /\ server' = server
                /\ exch' = [exch EXCEPT !.handlerGot = @ \o r.data, !.inbuf = r.input]
        /\ UNCHANGED <<pc, client, src, input, delivered, lastRet, hist, hdr, httpClient, keep,
                       parser, headers, urlRun, statusRun, wire>>

\* response.serialize(&mut stream)
ServerWriteHead ==
    /\ exch.spc = "respond"
    /\ server' = [server EXCEPT !.out = @ \o ResponseHead(server.response[1]),
                                !.events = Append(@, "head")]
    /\ exch' = [exch EXCEPT !.spc = "copy"]
    /\ UNCHANGED <<pc, client, src, input, body, delivered, lastRet, hist, hdr, httpClient, keep,
                   parser, headers, urlRun, statusRun, wire>>

\* io::copy(&mut response.body, &mut stream)
ServerCopyBody ==
    /\ exch.spc = "copy"
    /\ ServerSocketIdle
    /\ server' = [server EXCEPT !.out = @ \o exch.respBody,
                                !.events = Append(@, "body")]
    /\ exch' = [exch EXCEPT !.spc = "close"]
    /\ UNCHANGED <<pc, client, src, input, body, delivered, lastRet, hist, hdr, httpClient, keep,
                   parser, headers, urlRun, statusRun, wire>>

\* serve_one returns Ok(()): the accepted stream is dropped, which closes it.
ServerClose ==
    /\ exch.spc = "close"
    /\ ServerSocketIdle
    /\ server' = [server EXCEPT !.pc = "done", !.result = "ok"]
    /\ exch' = [exch EXCEPT !.spc = "done", !.closed = TRUE]
    /\ UNCHANGED <<pc, client, src, input, body, delivered, lastRet, hist, hdr, httpClient, keep,
                   parser, headers, urlRun, statusRun, wire>>

\* The bytes of the response are all in the pipe and the server has closed.
ResponseEof == exch.closed /\ ServerSocketIdle /\ ResponsePipe = <<>>

\* The client, its request flushed, reads the head of the response off the socket.
ClientPull ==
    /\ pc = "read"
    /\ ClientSocketIdle
    /\ ReadLines(exch.cbuf, <<>>).kind = "err"
    /\ ResponsePipe # <<>>
    /\ exch' = [exch EXCEPT !.cbuf = Append(@, ResponsePipe[1]), !.ord = @ + 1]
    /\ UNCHANGED <<pc, client, server, src, input, body, delivered, lastRet, hist, hdr, httpClient,
                   keep, parser, headers, urlRun, statusRun, wire>>

\* HttpResponse::deserialize in finish, and the status check of send_request.
ClientReadResponse ==
    LET h == ReadLines(exch.cbuf, <<>>) IN
    /\ pc = "read"
    /\ h.kind = "ok"
    /\ client' = [client EXCEPT !.responseReads = @ + 1]
    /\ exch' = [exch EXCEPT
            !.cbuf = h.rest,
            !.result = IF h.lines[1][3] = "200 OK" THEN "body" ELSE "UnexpectedStatus"]
    /\ pc' = IF h.lines[1][3] = "200 OK" THEN "returned" ELSE "end"
    /\ UNCHANGED <<server, src, input, body, delivered, lastRet, hist, hdr, httpClient, keep,
                   parser, headers, urlRun, statusRun, wire>>

\* The caller reads the body stream it was given: a ReadTilClose body on the socket.
ClientReadBody ==
    \E len \in {1, MaxBuf} :
        /\ pc = "returned"
        /\ ResponsePipe # <<>> \/ ResponseEof
        /\ LET n == StreamRead(ResponsePipe, len, len) IN
           /\ exch' = [exch EXCEPT !.got = @ \o SubSeq(ResponsePipe, 1, n),
                                   !.ord = @ + n]
           /\ pc' = IF n = 0 THEN "end" ELSE pc
        /\ UNCHANGED <<client, server, src, input, body, delivered, lastRet, hist, hdr, httpClient,
                       keep, parser, headers, urlRun, statusRun, wire>>

NextExchange ==
    \/ Connect
    \/ TransferRequest
    \/ TransferResponse
    \/ ClientSend
    \/ ServerPull
    \/ ServerReadRequest
    \/ ServerGet
    \/ ServerPutStart
    \/ HandlerRead
    \/ ServerWriteHead
    \/ ServerCopyBody
    \/ ServerClose
    \/ ClientPull
    \/ ClientReadResponse
    \/ ClientReadBody

SpecExchange == InitExchange /\ [][NextExchange]_vars

(***************************************************************************)
(* HttpClient (get_stream and its cache) and the one-shot calls            *)
(* (send_request).                                                         *)
(***************************************************************************)
MaxCalls == 3       \* calls made in one run of the client model

Schemes == {"http", "https"}

\* "a" and "alias" are two names of one machine; "nx" has no address.  Only "a" is asked for
\* over https as well.
Hosts == {"a", "alias", "nx"}

Urls == {u \in [scheme : Schemes, authority : Hosts, path : {"/"}] :
            u.scheme = "https" => u.authority = "a"}

\* to_socket_addrs(..).next(): the first address of the host, if it has one.
Resolve(host) ==
    CASE host = "a" -> Some("10.0.0.1")
      [] host = "alias" -> Some("10.0.0.1")
      [] OTHER -> None

\* Url::port of a URL without an explicit port.
UrlPort(url) == IF url.scheme = "https" THEN 443 ELSE 80

\* to_stream_addr: the StreamId {addr, host, secure} of a URL, or None (AddrNotAvailable).
ToStreamAddr(url) ==
    IF Resolve(url.authority) = None THEN None
    ELSE Some([addr |-> <<Resolve(url.authority)[1], UrlPort(url)>>,
               host |-> url.authority,
               secure |-> url.scheme = "https"])

\* What connect can do: the TCP connect fails, the TLS handshake of a secure identity
\* fails, or the stream is there.
ConnectOutcomes(id) == IF id.secure THEN {"ok", "IoError", "SslError"} ELSE {"ok", "IoError"}

Cached(hc, id) == \E e \in hc.streams : e.id = id

CachedStream(hc, id) == (CHOOSE e \in hc.streams : e.id = id).stream

\* One call of connect: it is logged, and the stream it makes (if any) has got the number
\* of the call; nothing has been written to it or read from it.
Connected(hc, api, id, c) ==
    [hc EXCEPT !.connects = Append(@, [api |-> api, id |-> id, outcome |-> c]),
               !.wires = Append(@, <<>>),
               !.reads = Append(@, 0)]

\* get_stream without the look-up: it connects on every call.
GetStreamNoLookup(hc, url, c) ==
    LET a == ToStreamAddr(url) IN
    IF a = None THEN [hc |-> hc, ret |-> "err", error |-> "AddrNotAvailable", stream |-> 0]
    ELSE IF c # "ok"
    THEN [hc |-> Connected(hc, "client", a[1], c), ret |-> "err", error |-> c, stream |-> 0]
    ELSE [hc |-> [Connected(hc, "client", a[1], c) EXCEPT
                     !.streams = @ \cup {[id |-> a[1], stream |-> Len(hc.connects) + 1]}],
          ret |-> "ok", error |-> "", stream |-> Len(hc.connects) + 1]

\* get_stream that installs the cache entry before it connects.
GetStreamInsertFirst(hc, url, c) ==
    LET a == ToStreamAddr(url) IN
    IF a = None THEN [hc |-> hc, ret |-> "err", error |-> "AddrNotAvailable", stream |-> 0]
    ELSE IF Cached(hc, a[1])
    THEN [hc |-> hc, ret |-> "ok", error |-> "", stream |-> CachedStream(hc, a[1])]
    ELSE [hc |-> [Connected(hc, "client", a[1], c) EXCEPT
                     !.streams = @ \cup {[id |-> a[1], stream |-> Len(hc.connects) + 1]}],
          ret |-> IF c = "ok" THEN "ok" ELSE "err",
          error |-> IF c = "ok" THEN "" ELSE c,
          stream |-> IF c = "ok" THEN Len(hc.connects) + 1 ELSE 0]

\* HttpClient::get_stream: the cached stream of the URL's identity, or a new one that is
\* put in the cache once connect has returned it.  c is what connect does if it is called.
GetStream(hc, url, c) ==
    LET a == ToStreamAddr(url) IN
    IF a = None THEN [hc |-> hc, ret |-> "err", error |-> "AddrNotAvailable", stream |-> 0]
    ELSE IF Cached(hc, a[1])
    THEN [hc |-> hc, ret |-> "ok", error |-> "", stream |-> CachedStream(hc, a[1])]
    ELSE IF c # "ok"
    THEN [hc |-> Connected(hc, "client", a[1], c), ret |-> "err", error |-> c, stream |-> 0]
    ELSE [hc |-> [Connected(hc, "client", a[1], c) EXCEPT
                     !.streams = @ \cup {[id |-> a[1], stream |-> Len(hc.connects) + 1]}],
          ret |-> "ok", error |-> "", stream |-> Len(hc.connects) + 1]

\* HttpStatus::from_code: the codes that have a variant of their own; every other code is
\* Unknown(code).
KnownCodes == {100, 101} \cup (200..206) \cup (300..305) \cup {307} \cup (400..417) \cup (500..505)

\* HttpStatus::from_code: the arms of its match, code and variant.
FromCodeArms ==
    { <<100, "Continue">>, <<101, "SwitchingProtocols">>, <<200, "OK">>, <<201, "Created">>,
      <<202, "Accepted">>, <<203, "NonAuthoritativeInformation">>, <<204, "NoContent">>,
      <<205, "ResetContent">>, <<206, "PartialContent">>, <<300, "MultipleChoices">>,
      <<301, "MovedPermanently">>, <<302, "Found">>, <<303, "SeeOther">>,
      <<304, "NotModified">>, <<305, "UseProxy">>, <<307, "TemporaryRedirect">>,
      <<400, "BadRequest">>, <<401, "Unauthorized">>, <<402, "PaymentRequired">>,
      <<403, "Forbidden">>, <<404, "NotFound">>, <<405, "MethodNotAllowed">>,
      <<406, "NotAcceptable">>, <<407, "ProxyAuthenticationRequired">>,
      <<408, "RequestTimeout">>, <<409, "Conflict">>, <<410, "Gone">>,
      <<411, "LengthRequired">>, <<412, "PreconditionFailed">>,
      <<413, "RequestEntityTooLarge">>, <<414, "RequestUriTooLong">>,
      <<415, "UnsupportedMediaType">>, <<416, "RequestedRangeNotSatisfiable">>,
      <<417, "ExpectationFailed">>, <<500, "InternalServerError">>, <<501, "NotImplemented">>,
      <<502, "BadGateway">>, <<503, "ServiceUnavailable">>, <<504, "GatewayTimeout">>,
      <<505, "HttpVersionNotSupported">> }

\* HttpStatus::to_code: the arms of its match, variant and code.
ToCodeArms ==
    { <<"Continue", 100>>, <<"SwitchingProtocols", 101>>, <<"OK", 200>>, <<"Created", 201>>,
      <<"Accepted", 202>>, <<"NonAuthoritativeInformation", 203>>, <<"NoContent", 204>>,
      <<"ResetContent", 205>>, <<"PartialContent", 206>>, <<"MultipleChoices", 300>>,
      <<"MovedPermanently", 301>>, <<"Found", 302>>, <<"SeeOther", 303>>,
      <<"NotModified", 304>>, <<"UseProxy", 305>>, <<"TemporaryRedirect", 307>>,
      <<"BadRequest", 400>>, <<"Unauthorized", 401>>, <<"PaymentRequired", 402>>,
      <<"Forbidden", 403>>, <<"NotFound", 404>>, <<"MethodNotAllowed", 405>>,
      <<"NotAcceptable", 406>>, <<"ProxyAuthenticationRequired", 407>>,
      <<"RequestTimeout", 408>>, <<"Conflict", 409>>, <<"Gone", 410>>,
      <<"LengthRequired", 411>>, <<"PreconditionFailed", 412>>,
      <<"RequestEntityTooLarge", 413>>, <<"RequestUriTooLong", 414>>,
      <<"UnsupportedMediaType", 415>>, <<"RequestedRangeNotSatisfiable", 416>>,
      <<"ExpectationFailed", 417>>, <<"InternalServerError", 500>>, <<"NotImplemented", 501>>,
      <<"BadGateway", 502>>, <<"ServiceUnavailable", 503>>, <<"GatewayTimeout", 504>>,
      <<"HttpVersionNotSupported", 505>> }

\* HttpStatus::from_code: the variant of the arm that matches; every other code is
\* Unknown(code).  (`code` is the payload of Unknown; for the other variants it records the
\* code they were made from.)
FromCode(code) ==
    IF \E arm \in FromCodeArms : arm[1] = code
    THEN [variant |-> (CHOOSE arm \in FromCodeArms : arm[1] = code)[2], code |-> code]
    ELSE [variant |-> "Unknown", code |-> code]

\* HttpStatus::to_code that gives 0 for Unknown(c).
ToCodeNamedOnly(status) ==
    IF status.variant = "Unknown" THEN 0
    ELSE (CHOOSE arm \in ToCodeArms : arm[1] = status.variant)[2]

\* HttpStatus::to_code
ToCode(status) ==
    IF status.variant = "Unknown" THEN status.code
    ELSE (CHOOSE arm \in ToCodeArms : arm[1] = status.variant)[2]

HttpStatusOK == FromCode(200)

\* str::parse::<u32> of a token of decimal digits (the tokens of the model are all digits).
RECURSIVE ParseU32(_, _)
ParseU32(s, acc) ==
    IF s = <<>> THEN acc ELSE ParseU32(Tail(s), acc * 10 + DigitValue(Head(s)))

\* HttpStatus::from_str: the number that is the first token; the reason phrase is not read.
HttpStatusFromStr(line) == FromCode(ParseU32(line.code, 0))

\* What a peer may put after the version in its status line.
StatusLines ==
    { [code |-> <<"2", "0", "0">>, reason |-> "OK"],
      [code |-> <<"2", "0", "0">>, reason |-> "Not Found"],
      [code |-> <<"2", "0", "1">>, reason |-> "Created"],
      [code |-> <<"2", "9", "9">>, reason |-> "OK"],
      [code |-> <<"4", "0", "4">>, reason |-> "Not Found"] }

\* A one-shot call that takes every 2xx status for success.
UnexpectedStatusNot2xx(status) == status.code \div 100 # 2

\* send_request: response.status != HttpStatus::OK.
UnexpectedStatus(status) == status # HttpStatusOK

InitHttpClient ==
    /\ pc = "client"
    /\ httpClient = NewHttpClient
    /\ server = NewServer
    /\ client = NewClient
    /\ src = NoSource
    /\ input = <<>>
    /\ hdr = [encoding |-> None, content_length |-> None]
    /\ body = HttpBodyNew(None, None)
    /\ delivered = <<>>
    /\ lastRet = "none"
    /\ hist = NoHist
    /\ exch = NoExchange
    /\ keep = NoKeepAlive
    /\ parser = NoParser
    /\ headers = NoHeaders
    /\ urlRun = NoUrl
    /\ statusRun = NoStatus
    /\ wire = NoWire

\* HttpClient::get and HttpClient::put: the builder, get_stream, and send, which writes the
\* request to the stream.  (The response is read by a later finish, not by this call.)
HttpClientRequest ==
    /\ pc = "client"
    /\ httpClient.calls < MaxCalls
    /\ \E url \in Urls, m \in OneShotMethods :
         LET a == ToStreamAddr(url) IN
         \E c \in IF a = None \/ Cached(httpClient, a[1]) THEN {"ok"} ELSE ConnectOutcomes(a[1]) :
            LET g == GetStream(httpClient, url, c)
                call == [NoCall EXCEPT !.api = "client", !.ret = g.ret, !.error = g.error,
                                       !.id = a, !.stream = g.stream]
            IN  httpClient' =
                  IF g.ret = "err"
                  THEN [g.hc EXCEPT !.calls = @ + 1, !.last = call]
                  ELSE [g.hc EXCEPT !.calls = @ + 1, !.last = call,
                                    !.wires[g.stream] = Append(@, [method |-> m, id |-> a[1]])]
    /\ UNCHANGED <<src, input, body, delivered, lastRet, hist, hdr, pc, client, server, exch, keep,
                   parser, headers, urlRun, statusRun, wire>>

\* client::get and client::put (send_request): a stream of its own, the request, finish,
\* and the body only if the status is OK.  The cache of an HttpClient has no part in it.
SendRequest ==
    /\ pc = "client"
    /\ httpClient.calls < MaxCalls
    /\ \E url \in Urls, m \in OneShotMethods :
         LET a == ToStreamAddr(url)
             n == Len(httpClient.connects) + 1
             call == [NoCall EXCEPT !.api = "oneshot", !.id = a]
         IN  \/ /\ a = None
                /\ httpClient' =
                     [httpClient EXCEPT !.calls = @ + 1,
                         !.last = [call EXCEPT !.ret = "err", !.error = "AddrNotAvailable"]]
             \/ /\ a # None
                /\ \E c \in ConnectOutcomes(a[1]) \ {"ok"} :
                     httpClient' =
                       [Connected(httpClient, "oneshot", a[1], c) EXCEPT !.calls = @ + 1,
                           !.last = [call EXCEPT !.ret = "err", !.error = c]]
             \/ /\ a # None
                /\ \E line \in StatusLines :
                     LET status == HttpStatusFromStr(line) IN
                     httpClient' =
                       [Connected(httpClient, "oneshot", a[1], "ok") EXCEPT !.calls = @ + 1,
                           !.wires[n] = <<[method |-> m, id |-> a[1]]>>,
                           !.reads[n] = 1,
                           !.last = [call EXCEPT !.stream = n, !.line = Some(line),
                                        !.status = Some(status),
                                        !.ret = IF UnexpectedStatus(status) THEN "err" ELSE "ok",
                                        !.error = IF UnexpectedStatus(status)
                                                  THEN "UnexpectedStatus" ELSE ""]]
    /\ UNCHANGED <<src, input, body, delivered, lastRet, hist, hdr, pc, client, server, exch, keep,
                   parser, headers, urlRun, statusRun, wire>>

NextHttpClient ==
    \/ HttpClientRequest
    \/ SendRequest

SpecHttpClient == InitHttpClient /\ [][NextHttpClient]_vars

(***************************************************************************)
(* An HttpClient whose requests may fail on the stream: in send, which     *)
(* writes the head, and in finish, which reads the response.               *)
(***************************************************************************)
\* What writing the head to the stream can do.
SendOutcomes == {"ok", "IoError"}

\* What finish can return: the response, or the error of the flush, of a read, of a head
\* that does not parse, or of the end of a stream the peer has closed.
FinishOutcomes == {"ok", "IoError", "ParseError", "UnexpectedEof"}

\* A client that drops the cached stream a request failed on.
RequestFailedEvict(hc, stream, error) ==
    [hc EXCEPT !.failed = @ \cup {[stream |-> stream, error |-> error,
                                   at |-> Len(hc.wires[stream])]},
               !.streams = {e \in @ : e.stream # stream}]

\* A request on a cached stream has failed: the error goes to the caller through `?`, and
\* the HttpClient is as it was (`failed` notes the stream, and how many requests had been
\* written to it).
RequestFailed(hc, stream, error) ==
    [hc EXCEPT !.failed = @ \cup {[stream |-> stream, error |-> error,
                                   at |-> Len(hc.wires[stream])]}]

\* HttpClient::get and HttpClient::put: get_stream, then send on the stream it gave.
CachedRequest ==
    /\ pc = "client"
    /\ httpClient.calls < MaxCalls
    /\ \E url \in Urls, m \in OneShotMethods, w \in SendOutcomes :
         LET a == ToStreamAddr(url) IN
         \E c \in IF a = None \/ Cached(httpClient, a[1]) THEN {"ok"} ELSE ConnectOutcomes(a[1]) :
            LET g == GetStream(httpClient, url, c)
                call == [NoCall EXCEPT !.api = "client", !.ret = g.ret, !.error = g.error,
                                       !.id = a, !.stream = g.stream]
            IN  httpClient' =
                  IF g.ret = "err"
                  THEN [g.hc EXCEPT !.calls = @ + 1, !.last = call, !.inFlight = FALSE]
                  ELSE IF w # "ok"
                  THEN [RequestFailed(g.hc, g.stream, w) EXCEPT
                            !.calls = @ + 1, !.inFlight = FALSE,
                            !.last = [call EXCEPT !.ret = "err", !.error = w]]
                  ELSE [g.hc EXCEPT !.calls = @ + 1, !.last = call, !.inFlight = TRUE,
                                    !.wires[g.stream] = Append(@, [method |-> m, id |-> a[1]])]
    /\ UNCHANGED <<src, input, body, delivered, lastRet, hist, hdr, pc, client, server, exch, keep,
                   parser, headers, urlRun, statusRun, wire>>

\* OutgoingRequest::finish on the request the last call returned.
CachedFinish ==
    /\ pc = "client"
    /\ httpClient.inFlight
    /\ \E o \in FinishOutcomes :
         httpClient' =
            IF o = "ok"
            THEN [httpClient EXCEPT !.inFlight = FALSE,
                                    !.reads[httpClient.last.stream] = @ + 1]
            ELSE [RequestFailed(httpClient, httpClient.last.stream, o) EXCEPT
                      !.inFlight = FALSE]
    /\ UNCHANGED <<src, input, body, delivered, lastRet, hist, hdr, pc, client, server, exch, keep,
                   parser, headers, urlRun, statusRun, wire>>

NextClientCache ==
    \/ CachedRequest
    \/ CachedFinish

SpecClientCache == InitHttpClient /\ [][NextClientCache]_vars

(***************************************************************************)
(* Requests one after another on one cached stream of an HttpClient, to a  *)
(* peer that keeps the connection open.                                    *)
(***************************************************************************)
MaxRequests == 2    \* requests made on the stream in one run

\* The bodies the peer answers with, as lists of chunks: no body, or one chunk.
ResponseChunks == {<<>>} \cup {<<p>> : p \in Payloads}

\* What the peer answers: a status, a body and the way the body is framed.
Responses ==
    [status : ExchangeStatuses, chunks : ResponseChunks, framing : {"length", "chunked"}]

\* The bytes of a response on the wire: the status line, the one header that frames the
\* body, the empty line, and the body (chunked bodies end with 0 CRLF CRLF).
ResponseBytes(r) ==
    <<"HTTP/1.1", " ", r.status, CR, LF>>
    \o (IF r.framing = "chunked"
        THEN <<"transfer-encoding: chunked", CR, LF>> \o CRLF \o FullStream(r.chunks, "lower")
        ELSE <<"content-length: ", LowerHex[Len(Flatten(r.chunks)) + 1], CR, LF>> \o CRLF
                 \o Flatten(r.chunks))

\* headers.get("Content-Length").map(str::parse) on the header lines of a head.
GetContentLength(lines) ==
    IF \E i \in 2..Len(lines) : Len(lines[i]) = 2 /\ lines[i][1] = "content-length: "
    THEN LET i == CHOOSE i \in 2..Len(lines) :
                      Len(lines[i]) = 2 /\ lines[i][1] = "content-length: "
         IN  Some(ParseU32(<<lines[i][2]>>, 0))
    ELSE None

\* HttpResponse::deserialize: the first line must be there and be a status line (an empty
\* first line is an error of expect_next, anything else in front of the version a parse
\* error); then the headers up to the empty line; the body is built on what follows.
HttpResponseDeserialize(s) ==
    LET first == ExpectNext(s)
        h == ReadLines(first.rest, <<first.line>>)
        err == [kind |-> "err", status |-> "", encoding |-> None, content_length |-> None,
                rest |-> <<>>]
    IN  IF first.kind = "err" THEN err
        ELSE IF Len(first.line) # 3 \/ first.line[1] # "HTTP/1.1" \/ first.line[2] # " "
        THEN err
        ELSE IF h.kind = "err" THEN err
        ELSE [kind |-> "ok", status |-> first.line[3], encoding |-> GetEncoding(h.lines),
              content_length |-> GetContentLength(h.lines), rest |-> h.rest]

InitKeepAlive ==
    /\ pc = "keepalive"
    /\ keep = NoKeepAlive
    /\ httpClient = NewHttpClient
    /\ server = NewServer
    /\ client = NewClient
    /\ src = NoSource
    /\ input = <<>>
    /\ hdr = [encoding |-> None, content_length |-> None]
    /\ body = HttpBodyNew(None, None)
    /\ delivered = <<>>
    /\ lastRet = "none"
    /\ hist = NoHist
    /\ exch = NoExchange
    /\ parser = NoParser
    /\ headers = NoHeaders
    /\ urlRun = NoUrl
    /\ statusRun = NoStatus
    /\ wire = NoWire

\* HttpClient::get or put on the cached stream: the request is written, and the peer, which
\* answers each request when it has it, sends the response to it.
KeepAliveRequest ==
    /\ pc = "keepalive"
    /\ keep.phase = "idle"
    /\ Len(keep.sent) < MaxRequests
    /\ \E r \in Responses :
         keep' = [keep EXCEPT !.phase = "sent",
                              !.sent = Append(@, r),
                              !.sock = @ \o ResponseBytes(r)]
    /\ UNCHANGED <<src, input, body, delivered, lastRet, hist, hdr, pc, client, server, exch,
                   httpClient, parser, headers, urlRun, statusRun, wire>>

\* OutgoingRequest::finish: HttpResponse::deserialize reads the head from the stream byte
\* by byte and builds the body on a new BufReader over the stream.
KeepAliveFinish ==
    /\ pc = "keepalive"
    /\ keep.phase = "sent"
    /\ LET h == HttpResponseDeserialize(keep.sock) IN
       keep' = IF h.kind = "err"
               THEN [keep EXCEPT !.phase = "failed",
                                 !.results = Append(@, [ret |-> "err", status |-> "",
                                                        body |-> <<>>])]
               ELSE [keep EXCEPT !.phase = "body",
                                 !.sock = h.rest,
                                 !.status = h.status,
                                 !.body = HttpBodyNew(h.encoding, h.content_length),
                                 !.got = <<>>]
    /\ UNCHANGED <<src, input, body, delivered, lastRet, hist, hdr, pc, client, server, exch,
                   httpClient, parser, headers, urlRun, statusRun, wire>>

\* The caller reads the body; a read of Ok(0) is its end.
KeepAliveRead ==
    /\ pc = "keepalive"
    /\ keep.phase = "body"
    /\ \E len \in {1, MaxBuf} :
         LET r == HttpBodyRead(keep.body, keep.sock, len, len) IN
         /\ r.ret = "ok"
         /\ keep' = IF r.n > 0
                    THEN [keep EXCEPT !.body = r.body, !.sock = r.input, !.got = @ \o r.data]
                    ELSE [keep EXCEPT !.body = r.body, !.sock = r.input, !.phase = "ended",
                                      !.results = Append(@, [ret |-> "ok",
                                                             status |-> keep.status,
                                                             body |-> keep.got])]
    /\ UNCHANGED <<src, input, body, delivered, lastRet, hist, hdr, pc, client, server, exch,
                   httpClient, parser, headers, urlRun, statusRun, wire>>

\* The response and its body are dropped, and with the body its BufReader.  std's BufReader
\* holds whatever its last fill took from the stream beyond what the body asked for (any
\* number of the bytes that had arrived), and those bytes go with it; the BufReader of the
\* build without std holds nothing.
KeepAliveDrop ==
    /\ pc = "keepalive"
    /\ keep.phase = "ended"
    /\ \E k \in 0..Len(keep.sock) :
         keep' = [keep EXCEPT !.phase = "idle",
                              !.dropped = SubSeq(keep.sock, 1, k),
                              !.sock = Drop(keep.sock, k)]
    /\ UNCHANGED <<src, input, body, delivered, lastRet, hist, hdr, pc, client, server, exch,
                   httpClient, parser, headers, urlRun, statusRun, wire>>

NextKeepAlive ==
    \/ KeepAliveRequest
    \/ KeepAliveFinish
    \/ KeepAliveRead
    \/ KeepAliveDrop

SpecKeepAlive == InitKeepAlive /\ [][NextKeepAlive]_vars

(***************************************************************************)
(* Parser: a &str and a byte position into it.                             *)
(***************************************************************************)
MaxStr == 3         \* characters in a string given to a Parser

\* The characters of the strings: ASCII ones of one byte, and e-acute, which is the two
\* bytes 0xC3 0xA9 in UTF-8.
Chars == {<<"a">>, <<"1">>, <<" ">>, <<"%">>, <<"C3", "A9">>}

\* A &str is valid UTF-8: the strings of up to MaxStr characters, and some version tokens.
Strings == UNION {{Flatten(cs) : cs \in [1..n -> Chars]} : n \in 0..MaxStr}

VersionStrings ==
    { <<"H", "T", "T", "P", "/", "1", ".", "1">>,
      <<"H", "T", "T", "P", "/", "1", ".">>,
      <<"H", "T", "T", "P", "C3", "A9", "1", ".", "1">>,
      <<"H", "T", "T", "P", "/", "C3", "A9", ".", "1">>,
      <<"H", "T", "T", "P", "/", "1", "C3", "A9", "1">>,
      <<"H", "T", "T", "P", "/", "1", ".", "C3", "A9">> }

\* str::is_char_boundary(i): the start, the end, or a byte that is no continuation byte.
IsCharBoundary(s, i) == i = 0 \/ i = Len(s) \/ (i < Len(s) /\ s[i + 1] # "A9")

\* &s[a..b] panics unless a <= b <= len and both are character boundaries.
SliceOk(s, a, b) == a <= b /\ b <= Len(s) /\ IsCharBoundary(s, a) /\ IsCharBoundary(s, b)

Outcome(p, op, ret, position, value) ==
    [p |-> [p EXCEPT !.position = position, !.op = op, !.ret = ret], value |-> value]

\* An expect that moves the position on before it compares.
ParserExpectAdvancing(p, expected) ==
    LET start == p.position
        end == Min(Len(p.s), p.position + Len(expected))
    IN  IF p.position >= Len(p.s) THEN Outcome(p, "expect", "err", p.position, <<>>)
        ELSE IF ~SliceOk(p.s, start, end) THEN Outcome(p, "expect", "panic", p.position, <<>>)
        ELSE IF SubSeq(p.s, start + 1, end) # expected
        THEN Outcome(p, "expect", "err", end, <<>>)
        ELSE Outcome(p, "expect", "ok", p.position + Len(expected), <<>>)

\* Parser::expect
ParserExpect(p, expected) ==
    LET start == p.position
        end == Min(Len(p.s), p.position + Len(expected))
    IN  IF p.position >= Len(p.s) THEN Outcome(p, "expect", "err", p.position, <<>>)
        ELSE IF ~SliceOk(p.s, start, end) THEN Outcome(p, "expect", "panic", p.position, <<>>)
        ELSE IF SubSeq(p.s, start + 1, end) # expected
        THEN Outcome(p, "expect", "err", p.position, <<>>)
        ELSE Outcome(p, "expect", "ok", p.position + Len(expected), <<>>)

\* Parser::parse_char: the slice position..=position, its first character.
ParseChar(p) ==
    IF p.position >= Len(p.s) THEN Outcome(p, "parse_char", "err", p.position, <<>>)
    ELSE IF ~SliceOk(p.s, p.position, p.position + 1)
    THEN Outcome(p, "parse_char", "panic", p.position, <<>>)
    ELSE Outcome(p, "parse_char", "ok", p.position + 1, <<p.s[p.position + 1]>>)

\* Parser::parse_digit: the same slice, the position moved on, then str::parse::<u32>.
ParseDigit(p) ==
    IF p.position >= Len(p.s) THEN Outcome(p, "parse_digit", "err", p.position, <<>>)
    ELSE IF ~SliceOk(p.s, p.position, p.position + 1)
    THEN Outcome(p, "parse_digit", "panic", p.position, <<>>)
    ELSE IF DigitValue(p.s[p.position + 1]) \in 0..9
    THEN Outcome(p, "parse_digit", "ok", p.position + 1, <<p.s[p.position + 1]>>)
    ELSE Outcome(p, "parse_digit", "err", p.position + 1, <<>>)

\* str::find of a one-byte pattern in s from byte `from` on: its offset from there, or -1.
Find(s, from, divs) ==
    IF \E i \in (from + 1)..Len(s) : s[i] \in divs
    THEN (CHOOSE i \in (from + 1)..Len(s) :
             s[i] \in divs /\ \A j \in (from + 1)..(i - 1) : s[j] \notin divs) - from - 1
    ELSE -1

\* Parser::parse_until (and parse_until_any): up to the first divider, which is not taken.
ParseUntil(p, divs) ==
    IF p.position >= Len(p.s) THEN Outcome(p, "parse_until", "err", p.position, <<>>)
    ELSE IF ~SliceOk(p.s, p.position, Len(p.s))
    THEN Outcome(p, "parse_until", "panic", p.position, <<>>)
    ELSE IF Find(p.s, p.position, divs) < 0
    THEN Outcome(p, "parse_until", "err", p.position, <<>>)
    ELSE Outcome(p, "parse_until", "ok", p.position + Find(p.s, p.position, divs),
                 SubSeq(p.s, p.position + 1, p.position + Find(p.s, p.position, divs)))

\* Parser::consume_whilespace: the position after the blanks that start at it.
RECURSIVE ConsumeWhitespace(_, _)
ConsumeWhitespace(s, position) ==
    IF position < Len(s) /\ s[position + 1] = " " THEN ConsumeWhitespace(s, position + 1)
    ELSE position

\* Parser::parse_token: up to the first blank or the end, and the blanks after it.
ParseToken(p) ==
    IF p.position >= Len(p.s) THEN Outcome(p, "parse_token", "err", p.position, <<>>)
    ELSE IF ~SliceOk(p.s, p.position, Len(p.s))
    THEN Outcome(p, "parse_token", "panic", p.position, <<>>)
    ELSE LET f == Find(p.s, p.position, {" "})
             n == IF f < 0 THEN Len(p.s) - p.position ELSE f
         IN  Outcome(p, "parse_token", "ok", ConsumeWhitespace(p.s, p.position + n),
                     SubSeq(p.s, p.position + 1, p.position + n))

\* Parser::parse_remaining: what is left; the position goes one past the end.
ParseRemaining(p) ==
    IF p.position > Len(p.s) THEN Outcome(p, "parse_remaining", "err", p.position, <<>>)
    ELSE IF ~SliceOk(p.s, p.position, Len(p.s))
    THEN Outcome(p, "parse_remaining", "panic", p.position, <<>>)
    ELSE Outcome(p, "parse_remaining", "ok", Len(p.s) + 1, Drop(p.s, p.position))

\* A step that went wrong ends the parse with its outcome (`?`, or the unwinding of a
\* panic); otherwise the parse goes on with `next`.
Then(o, next) == IF o.p.ret = "ok" THEN next ELSE o

\* impl FromStr for HttpVersion: expect("HTTP/"), parse_digit, expect("."), parse_digit.
HttpVersionFromStr(s) ==
    LET p0 == [s |-> s, position |-> 0, op |-> "none", ret |-> "none"]
        o1 == ParserExpect(p0, <<"H", "T", "T", "P", "/">>)
        o2 == ParseDigit(o1.p)
        o3 == ParserExpect(o2.p, <<".">>)
        o4 == ParseDigit(o3.p)
    IN  Then(o1, Then(o2, Then(o3, Outcome(o4.p, "HttpVersion", o4.p.ret, o4.p.position,
                                           o2.value \o o4.value))))

\* str::from_utf8 succeeds: ASCII bytes, and two-byte sequences (a lead byte 0xC2..0xDF and
\* a continuation byte 0x80..0xBF); longer sequences are out of the model's reach.
RECURSIVE Utf8Valid(_)
Utf8Valid(bytes) ==
    IF bytes = <<>> THEN TRUE
    ELSE IF bytes[1] < 128 THEN Utf8Valid(Tail(bytes))
    ELSE /\ bytes[1] \in 194..223
         /\ Len(bytes) >= 2
         /\ bytes[2] \in 128..191
         /\ Utf8Valid(Tail(Tail(bytes)))

\* percent_decode: parse_char until it fails; after '%' two more characters that must be
\* hex digits; the bytes must be UTF-8 in the end.
RECURSIVE PercentDecode(_, _)
PercentDecode(p, decoded) ==
    LET c == ParseChar(p)
        h1 == ParseChar(c.p)
        h2 == ParseChar(h1.p)
        byte == FromStrRadix16(h1.value \o h2.value)
    IN  IF c.p.ret = "panic" THEN Outcome(c.p, "percent_decode", "panic", c.p.position, <<>>)
        ELSE IF c.p.ret = "err"
        THEN IF ~Utf8Valid(decoded)
             THEN Outcome(p, "percent_decode", "err", p.position, <<>>)
             ELSE Outcome(p, "percent_decode", "ok", p.position, decoded)
        ELSE IF c.value # <<"%">>
        THEN PercentDecode(c.p, Append(decoded, ByteOf(c.value[1])))
        ELSE IF h1.p.ret # "ok" THEN Outcome(h1.p, "percent_decode", h1.p.ret, h1.p.position, <<>>)
        ELSE IF h2.p.ret # "ok" THEN Outcome(h2.p, "percent_decode", h2.p.ret, h2.p.position, <<>>)
        ELSE IF byte < 0 \/ byte > 255
        THEN Outcome(h2.p, "percent_decode", "err", h2.p.position, <<>>)
        ELSE PercentDecode(h2.p, Append(decoded, byte))

InitParser ==
    /\ pc = "parser"
    /\ \E s \in Strings \cup VersionStrings : parser = [NoParser EXCEPT !.s = s]
    /\ httpClient = NewHttpClient
    /\ keep = NoKeepAlive
    /\ server = NewServer
    /\ client = NewClient
    /\ src = NoSource
    /\ input = <<>>
    /\ hdr = [encoding |-> None, content_length |-> None]
    /\ body = HttpBodyNew(None, None)
    /\ delivered = <<>>
    /\ lastRet = "none"
    /\ hist = NoHist
    /\ exch = NoExchange
    /\ headers = NoHeaders
    /\ urlRun = NoUrl
    /\ statusRun = NoStatus
    /\ wire = NoWire

Others == <<src, input, body, delivered, lastRet, hist, hdr, pc, client, server, exch,
            httpClient, keep, headers, urlRun, statusRun, wire>>

\* A thread that has panicked makes no further call.
Running == pc = "parser" /\ parser.ret # "panic"

Expect ==
    /\ Running
    /\ \E expected \in {<<"a">>, <<"%">>, <<"a", "1">>} :
         parser' = ParserExpect(parser, expected).p
    /\ UNCHANGED Others

ParseCharStep ==
    /\ Running
    /\ parser' = ParseChar(parser).p
    /\ UNCHANGED Others

ParseDigitStep ==
    /\ Running
    /\ parser' = ParseDigit(parser).p
    /\ UNCHANGED Others

ParseUntilStep ==
    /\ Running
    /\ \E divs \in {{"a"}, {"%"}, {"1", " "}} : parser' = ParseUntil(parser, divs).p
    /\ UNCHANGED Others

ParseTokenStep ==
    /\ Running
    /\ parser' = ParseToken(parser).p
    /\ UNCHANGED Others

ParseRemainingStep ==
    /\ Running
    /\ parser' = ParseRemaining(parser).p
    /\ UNCHANGED Others

\* str::parse::<HttpVersion> of the whole string.
ParseVersion ==
    /\ Running
    /\ parser.op = "none"
    /\ parser' = HttpVersionFromStr(parser.s).p
    /\ UNCHANGED Others

\* percent_decode of the whole string.
PercentDecodeStep ==
    /\ Running
    /\ parser.op = "none"
    /\ parser' = PercentDecode(parser, <<>>).p
    /\ UNCHANGED Others

NextParser ==
    \/ Expect
    \/ ParseCharStep
    \/ ParseDigitStep
    \/ ParseUntilStep
    \/ ParseTokenStep
    \/ ParseRemainingStep
    \/ ParseVersion
    \/ PercentDecodeStep

SpecParser == InitParser /\ [][NextParser]_vars

(***************************************************************************)
(* percent_encode, and percent_decode of what it gives.                    *)
(***************************************************************************)
\* The characters of the strings that are encoded: unreserved ones, reserved ones, a
\* control character and a character of two bytes.
EncodeChars == {<<"a">>, <<"~">>, <<" ">>, <<"%">>, <<"\n">>, <<"C3", "A9">>}

EncodeStrings == UNION {{Flatten(cs) : cs \in [1..n -> EncodeChars]} : n \in 0..MaxStr}

\* s.chars() of a string given by its bytes: the characters, each the sequence of its bytes
\* (a byte of 0xC2..0xDF starts a character of two bytes).
RECURSIVE CharsOf(_)
CharsOf(bytes) ==
    IF bytes = <<>> THEN <<>>
    ELSE IF bytes[1] >= 194 THEN <<SubSeq(bytes, 1, 2)>> \o CharsOf(Drop(bytes, 2))
    ELSE <<SubSeq(bytes, 1, 1)>> \o CharsOf(Tail(bytes))

\* is_unreserved_char: a..z, A..Z, 0..9, '-', '.', '_', '~'.
IsUnreservedChar(c) ==
    /\ Len(c) = 1
    /\ c[1] \in (97..122) \cup (65..90) \cup (48..57) \cup {45, 46, 95, 126}

\* percent_encode_char: format!("%{:x}", b) of each byte, joined.
RECURSIVE PercentEncodeChar(_)
PercentEncodeChar(c) ==
    IF c = <<>> THEN <<>>
    ELSE <<"%">> \o ToHex(Head(c)) \o PercentEncodeChar(Tail(c))

\* percent_encode of the string whose characters are cs.
RECURSIVE PercentEncode(_)
PercentEncode(cs) ==
    IF cs = <<>> THEN <<>>
    ELSE (IF IsUnreservedChar(Head(cs)) THEN <<ByteAs(Head(cs)[1])>>
          ELSE PercentEncodeChar(Head(cs)))
         \o PercentEncode(Tail(cs))

InitPercent ==
    /\ pc = "percent"
    /\ \E s \in EncodeStrings : parser = [NoParser EXCEPT !.s = s]
    /\ httpClient = NewHttpClient
    /\ keep = NoKeepAlive
    /\ server = NewServer
    /\ client = NewClient
    /\ src = NoSource
    /\ input = <<>>
    /\ hdr = [encoding |-> None, content_length |-> None]
    /\ body = HttpBodyNew(None, None)
    /\ delivered = <<>>
    /\ lastRet = "none"
    /\ hist = NoHist
    /\ exch = NoExchange
    /\ headers = NoHeaders
    /\ urlRun = NoUrl
    /\ statusRun = NoStatus
    /\ wire = NoWire

\* percent_encode(s): `input` keeps the string that was given.
PercentEncodeStep ==
    /\ pc = "percent"
    /\ parser.op = "none"
    /\ parser' = [s |-> PercentEncode(CharsOf(BytesOf(parser.s))), position |-> 0,
                  op |-> "percent_encode", ret |-> "ok"]
    /\ input' = parser.s
    /\ UNCHANGED <<src, body, delivered, lastRet, hist, hdr, pc, client, server, exch, httpClient,
                   keep, headers, urlRun, statusRun, wire>>

\* percent_decode of the encoded string: `delivered` takes the decoded bytes.
PercentDecodeEncoded ==
    /\ pc = "percent"
    /\ parser.op = "percent_encode"
    /\ parser' = PercentDecode(parser, <<>>).p
    /\ delivered' = PercentDecode(parser, <<>>).value
    /\ UNCHANGED <<src, input, body, lastRet, hist, hdr, pc, client, server, exch, httpClient, keep,
                   headers, urlRun, statusRun, wire>>

NextPercent ==
    \/ PercentEncodeStep
    \/ PercentDecodeEncoded

SpecPercent == InitPercent /\ [][NextPercent]_vars

(***************************************************************************)
(* HttpHeaders: insert and get.                                            *)
(***************************************************************************)
MaxInserts == 3     \* insert calls made on one HttpHeaders

\* Header keys that differ in letter case only, and keys that differ in more.
Keys == {<<"a">>, <<"A">>, <<"a", "b">>, <<"a", "B">>, <<"A", "B">>}

Values == {<<"x">>, <<"y">>}

\* char::to_lowercase of the characters of the keys (ASCII: header names are tokens).
LowerOf(c) ==
    IF \E i \in 1..26 : AsciiUpper[i] = c
    THEN AsciiLower[CHOOSE i \in 1..26 : AsciiUpper[i] = c]
    ELSE c

\* str::to_lowercase
ToLowercase(s) == [i \in 1..Len(s) |-> LowerOf(s[i])]

\* HttpHeaders::insert that keeps the key as it was given.
HttpHeadersInsertAsGiven(map, key, value) ==
    {e \in map : e.key # key} \cup {[key |-> key, value |-> value]}

\* HttpHeaders::insert: BTreeMap::insert under the lower-cased key; an entry that was there
\* under that key is replaced.
HttpHeadersInsert(map, key, value) ==
    {e \in map : e.key # ToLowercase(key)} \cup {[key |-> ToLowercase(key), value |-> value]}

\* HttpHeaders::get: BTreeMap::get of the lower-cased key.
HttpHeadersGet(map, key) ==
    IF \E e \in map : e.key = ToLowercase(key)
    THEN Some((CHOOSE e \in map : e.key = ToLowercase(key)).value)
    ELSE None

InitHeaders ==
    /\ pc = "headers"
    /\ headers = NoHeaders
    /\ parser = NoParser
    /\ httpClient = NewHttpClient
    /\ keep = NoKeepAlive
    /\ server = NewServer
    /\ client = NewClient
    /\ src = NoSource
    /\ input = <<>>
    /\ hdr = [encoding |-> None, content_length |-> None]
    /\ body = HttpBodyNew(None, None)
    /\ delivered = <<>>
    /\ lastRet = "none"
    /\ hist = NoHist
    /\ exch = NoExchange
    /\ urlRun = NoUrl
    /\ statusRun = NoStatus
    /\ wire = NoWire

\* headers.insert(key, value)
Insert ==
    /\ pc = "headers"
    /\ headers.ret = "ok"
    /\ Len(headers.log) + Len(headers.given) < MaxInserts
    /\ \E key \in Keys, value \in Values :
         headers' = [headers EXCEPT !.map = HttpHeadersInsert(@, key, value),
                                    !.log = Append(@, [key |-> key, value |-> value]),
                                    !.got = <<>>]
    /\ UNCHANGED <<src, input, body, delivered, lastRet, hist, hdr, pc, client, server, exch,
                   httpClient, keep, parser, urlRun, statusRun, wire>>

\* headers.get(key)
Get ==
    /\ pc = "headers"
    /\ headers.ret = "ok"
    /\ \E key \in Keys :
         headers' = [headers EXCEPT
                        !.got = <<[key |-> key, value |-> HttpHeadersGet(headers.map, key)]>>]
    /\ UNCHANGED <<src, input, body, delivered, lastRet, hist, hdr, pc, client, server, exch,
                   httpClient, keep, parser, urlRun, statusRun, wire>>

NextHeaders ==
    \/ Insert
    \/ Get

SpecHeaders == InitHeaders /\ [][NextHeaders]_vars

(***************************************************************************)
(* HttpHeaders built in the other ways: From<Vec<HttpHeader>>, FromIterator *)
(* (collect, the http_headers! macro) and deserialize.                     *)
(***************************************************************************)
\* The (key, value) lists a map is built from: one or two pairs.
PairLists ==
    LET Pairs == [key : Keys, value : Values] IN
    {<<a>> : a \in Pairs} \cup {<<a, b>> : a, b \in Pairs}

\* BTreeMap::insert of each pair in turn, under the key as it stands in the pair.
RECURSIVE MapOf(_, _)
MapOf(pairs, map) ==
    IF pairs = <<>> THEN map
    ELSE MapOf(Tail(pairs),
               {e \in map : e.key # Head(pairs).key}
                   \cup {[key |-> Head(pairs).key, value |-> Head(pairs).value]})

\* HttpHeader::new: the key is lower-cased.
HttpHeaderNew(key, value) == [key |-> ToLowercase(key), value |-> value]

\* impl From<Vec<HttpHeader>> for HttpHeaders
HttpHeadersFrom(hs) == MapOf(hs, {})

\* impl FromIterator<(String, String)> for HttpHeaders: the pairs are collected into the
\* BTreeMap as they are.
HttpHeadersFromIter(pairs) == MapOf(pairs, {})

\* Ord for String: byte by byte, a prefix before what it is a prefix of.
RECURSIVE KeyLess(_, _)
KeyLess(a, b) ==
    IF b = <<>> THEN FALSE
    ELSE IF a = <<>> THEN TRUE
    ELSE IF ByteOf(Head(a)) # ByteOf(Head(b)) THEN ByteOf(Head(a)) < ByteOf(Head(b))
    ELSE KeyLess(Tail(a), Tail(b))

\* HttpHeaders::serialize: "{}: {}\r\n" for each entry of the BTreeMap, in key order.
RECURSIVE HttpHeadersSerialize(_)
HttpHeadersSerialize(map) ==
    IF map = {} THEN <<>>
    ELSE LET e == CHOOSE e \in map : \A f \in map : f.key = e.key \/ KeyLess(e.key, f.key)
         IN  e.key \o <<":", " ">> \o e.value \o CRLF \o HttpHeadersSerialize(map \ {e})

\* HttpHeader::deserialize: the key up to the first ':', then ": ", the rest is the value.
HttpHeaderDeserialize(line) ==
    LET o1 == ParseUntil([NoParser EXCEPT !.s = line], {":"})
        o2 == ParserExpect(o1.p, <<":", " ">>)
        o3 == ParseRemaining(o2.p)
    IN  IF o1.p.ret # "ok" THEN [kind |-> o1.p.ret, header |-> <<>>]
        ELSE IF o2.p.ret # "ok" THEN [kind |-> o2.p.ret, header |-> <<>>]
        ELSE IF o3.p.ret # "ok" THEN [kind |-> o3.p.ret, header |-> <<>>]
        ELSE [kind |-> "ok", header |-> <<HttpHeaderNew(ToLowercase(o1.value), o3.value)>>]

\* Peekable<CrLfStream>: the stream `s` and the slot `peeked` that holds the item a peek took
\* from the stream and the next `next` has to hand out.
PeekableOf(s) == [s |-> s, peeked |-> <<>>]

\* Peekable::next that reads the stream also when an item sits in the slot.
PeekableNextUnbuffered(it) ==
    LET n == InnerNext(it.s) IN [item |-> n, it |-> [s |-> n.rest, peeked |-> <<>>]]

\* Peekable::next: the item in the slot if there is one, else the stream's next item.
PeekableNext(it) ==
    IF it.peeked # <<>> THEN [item |-> it.peeked[1], it |-> [it EXCEPT !.peeked = <<>>]]
    ELSE LET n == InnerNext(it.s) IN [item |-> n, it |-> [s |-> n.rest, peeked |-> <<>>]]

\* Peekable::peek: the slot is filled from the stream if it is empty.
PeekablePeek(it) ==
    IF it.peeked # <<>> THEN it
    ELSE LET n == InnerNext(it.s) IN [s |-> n.rest, peeked |-> <<n>>]

\* A deserialize that takes every line for a header of its own.
ContinuedNever(line, it) == [line |-> line, it |-> it]

\* The inner loop of HttpHeaders::deserialize: while the peeked item is a line that starts
\* with a space or a tab it is taken and pushed onto the line.
RECURSIVE Continued(_, _)
Continued(line, it) ==
    LetIn(PeekablePeek(it), LAMBDA p :
        LET n == p.peeked[1] IN
        IF n.kind = "line" /\ n.line[1] \in {" ", "\t"}
        THEN LetIn(PeekableNext(p), LAMBDA x : Continued(line \o x.item.line, x.it))
        ELSE [line |-> line, it |-> p])

\* HttpHeaders::deserialize: the lines up to the empty line, each with its continuation
\* lines, each made a header; then From<Vec<HttpHeader>>. `rest` is what the stream still
\* holds when the Peekable is dropped.
RECURSIVE HttpHeadersDeserialize(_, _)
HttpHeadersDeserialize(it, hs) ==
    LetIn(PeekableNext(it), LAMBDA x :
        LET n == x.item IN
        IF n.kind = "err" THEN [kind |-> "err", hs |-> hs, map |-> {}, rest |-> x.it.s]
        ELSE IF n.kind = "end"
        THEN [kind |-> "ok", hs |-> hs, map |-> HttpHeadersFrom(hs), rest |-> x.it.s]
        ELSE LetIn(Continued(n.line, x.it), LAMBDA c :
                 LetIn(HttpHeaderDeserialize(c.line), LAMBDA h :
                     IF h.kind # "ok"
                     THEN [kind |-> h.kind, hs |-> hs, map |-> {}, rest |-> c.it.s]
                     ELSE LetIn(hs \o h.header, LAMBDA more :
                              HttpHeadersDeserialize(c.it, more)))))

\* A header as a peer writes it over several lines: the key, the value on the first line,
\* and the continuation lines, each starting with a space or a tab.
Folds == {<<>>, <<<<" ", "y">>>>, <<<<"\t", "x">>, <<" ", "y">>>>}

Folded == [key : {<<"a">>, <<"A">>, <<"a", "b">>}, value : Values, folds : Folds]

FoldedLists == {<<a>> : a \in Folded} \cup {<<a, b>> : a, b \in Folded}

RECURSIVE LinesOf(_)
LinesOf(folds) ==
    IF folds = <<>> THEN <<>> ELSE Head(folds) \o CRLF \o LinesOf(Tail(folds))

\* The header block of the folded headers: every line ends in CRLF, an empty line ends it.
RECURSIVE HeaderBlock(_)
HeaderBlock(fs) ==
    IF fs = <<>> THEN CRLF
    ELSE Head(fs).key \o <<":", " ">> \o Head(fs).value \o CRLF \o LinesOf(Head(fs).folds)
             \o HeaderBlock(Tail(fs))

\* Nothing has been done with the HttpHeaders value yet.
Fresh == pc = "headers" /\ headers = NoHeaders

\* HttpHeaders::from(vec![HttpHeader::new(k, v), ..])
FromVec ==
    /\ Fresh
    /\ \E pairs \in PairLists :
         headers' = [headers EXCEPT
             !.how = "from_vec", !.given = pairs,
             !.map = HttpHeadersFrom([i \in DOMAIN pairs |->
                                         HttpHeaderNew(pairs[i].key, pairs[i].value)])]
    /\ UNCHANGED <<src, input, body, delivered, lastRet, hist, hdr, pc, client, server, exch,
                   httpClient, keep, parser, urlRun, statusRun, wire>>

\* [(k, v), ..].into_iter().collect::<HttpHeaders>(), which is what http_headers! expands to
FromIter ==
    /\ Fresh
    /\ \E pairs \in PairLists :
         headers' = [headers EXCEPT !.how = "from_iter", !.given = pairs,
                                    !.map = HttpHeadersFromIter(pairs)]
    /\ UNCHANGED <<src, input, body, delivered, lastRet, hist, hdr, pc, client, server, exch,
                   httpClient, keep, parser, urlRun, statusRun, wire>>

\* HttpHeaders::deserialize on the header block a peer sent
DeserializeHeaders ==
    /\ Fresh
    /\ \E fs \in FoldedLists :
         LET d == HttpHeadersDeserialize(PeekableOf(HeaderBlock(fs)), <<>>) IN
         headers' = [headers EXCEPT !.how = "deserialize", !.given = fs, !.ret = d.kind,
                                    !.map = d.map]
    /\ UNCHANGED <<src, input, body, delivered, lastRet, hist, hdr, pc, client, server, exch,
                   httpClient, keep, parser, urlRun, statusRun, wire>>

NextBuilt ==
    \/ FromVec
    \/ FromIter
    \/ DeserializeHeaders
    \/ Insert
    \/ Get

SpecBuilt == InitHeaders /\ [][NextBuilt]_vars

(***************************************************************************)
(* HttpRequestBuilder: new and add_header.                                 *)
(***************************************************************************)
HostKey == <<"H", "o", "s", "t">>

UserAgentKey == <<"U", "s", "e", "r", "-", "A", "g", "e", "n", "t">>

AcceptKey == <<"A", "c", "c", "e", "p", "t">>

TransferEncodingKey ==
    <<"T", "r", "a", "n", "s", "f", "e", "r", "-", "E", "n", "c", "o", "d", "i", "n", "g">>

\* HttpRequestBuilder::new that asks for a chunked body whatever the method.
HttpRequestBuilderNewAlwaysChunked(url, m) ==
    HttpHeadersInsert(
        HttpHeadersInsert(
            HttpHeadersInsert(
                HttpHeadersInsert({}, HostKey, <<url.authority>>),
                UserAgentKey, <<"http_io">>),
            AcceptKey, <<"*/*">>),
        TransferEncodingKey, <<"chunked">>)

\* HttpRequestBuilder::new: the headers of the request it makes.  Header values are kept as
\* one token each.
HttpRequestBuilderNew(url, m) ==
    LET h3 == HttpHeadersInsert(
                  HttpHeadersInsert(
                      HttpHeadersInsert({}, HostKey, <<url.authority>>),
                      UserAgentKey, <<"http_io">>),
                  AcceptKey, <<"*/*">>)
    IN  IF HasBody(m) THEN HttpHeadersInsert(h3, TransferEncodingKey, <<"chunked">>) ELSE h3

\* The number of add_header calls made on one builder.
MaxAdds == 2

\* The keys add_header is called with: the Host and Accept keys in other spellings, and a
\* key the builder does not set.
AddKeys ==
    { <<"h", "o", "s", "t">>, <<"H", "O", "S", "T">>, <<"a", "C", "C", "E", "P", "T">>,
      <<"X">> }

\* HttpRequestBuilder::new(url, method)
BuilderNew ==
    /\ pc = "builder"
    /\ headers = NoHeaders
    /\ \E url \in Urls, m \in Methods :
         headers' = [headers EXCEPT
                        !.how = "builder",
                        !.given = <<[method |-> m, authority |-> url.authority]>>,
                        !.map = HttpRequestBuilderNew(url, m)]
    /\ UNCHANGED <<src, input, body, delivered, lastRet, hist, hdr, pc, client, server, exch,
                   httpClient, keep, parser, urlRun, statusRun, wire>>

\* builder.add_header(key, value)
BuilderAddHeader ==
    /\ pc = "builder"
    /\ headers.how = "builder"
    /\ Len(headers.log) < MaxAdds
    /\ \E key \in AddKeys, value \in Values :
         headers' = [headers EXCEPT !.map = HttpHeadersInsert(@, key, value),
                                    !.log = Append(@, [key |-> key, value |-> value])]
    /\ UNCHANGED <<src, input, body, delivered, lastRet, hist, hdr, pc, client, server, exch,
                   httpClient, keep, parser, urlRun, statusRun, wire>>

InitBuilder ==
    /\ pc = "builder"
    /\ headers = NoHeaders
    /\ parser = NoParser
    /\ httpClient = NewHttpClient
    /\ keep = NoKeepAlive
    /\ server = NewServer
    /\ client = NewClient
    /\ src = NoSource
    /\ input = <<>>
    /\ hdr = [encoding |-> None, content_length |-> None]
    /\ body = HttpBodyNew(None, None)
    /\ delivered = <<>>
    /\ lastRet = "none"
    /\ hist = NoHist
    /\ exch = NoExchange
    /\ urlRun = NoUrl
    /\ statusRun = NoStatus
    /\ wire = NoWire

NextBuilder ==
    \/ BuilderNew
    \/ BuilderAddHeader

SpecBuilder == InitBuilder /\ [][NextBuilder]_vars

(***************************************************************************)
(* HttpRequestBuilder::send: the request the builder holds is serialized   *)
(* and the caller writes the body and finishes.                            *)
(***************************************************************************)
\* The values add_header is given for Transfer-Encoding.
EncodingValues == {<<"chunked">>, <<"identity">>}

\* The number of add_header calls for Transfer-Encoding made on one builder.
MaxEncodingAdds == 1

\* How the BufWriter treats the three writes of the head: std's keeps them in its buffer,
\* the one of io.rs writes each through.
SendSpills == {[i \in 1..3 |-> "keep"], [i \in 1..3 |-> "through"]}

\* builder.add_header("Transfer-Encoding", value), the key in either spelling
BuilderAddEncoding ==
    /\ pc = "builder"
    /\ headers.how = "builder"
    /\ Len(headers.log) < MaxEncodingAdds
    /\ \E key \in {TransferEncodingKey, ToLowercase(TransferEncodingKey)},
          value \in EncodingValues :
         headers' = [headers EXCEPT !.map = HttpHeadersInsert(@, key, value),
                                    !.log = Append(@, [key |-> key, value |-> value])]
    /\ UNCHANGED <<src, input, body, delivered, lastRet, hist, hdr, pc, client, server, exch,
                   httpClient, keep, parser, urlRun, statusRun, wire>>

\* The three writes of HttpRequest::serialize for the request of a builder: the request
\* line, the headers of its map, the empty line.
BuiltHead(m, map) ==
    << <<m, " ", "/", " ", "HTTP/1.1", CR, LF>>, HttpHeadersSerialize(map), CRLF >>

\* builder.send(socket): self.request.serialize(BufWriter::new(socket)); the method decides
\* whether the OutgoingRequest takes a body.
BuilderSend ==
    \E sp \in SendSpills :
        /\ pc = "builder"
        /\ headers.how = "builder"
        /\ LET m == headers.given[1].method
               c == BufWriteAll([client EXCEPT !.method = m], BuiltHead(m, headers.map), sp)
           IN  client' = IF HasBody(m)
                         THEN [c EXCEPT !.variant = "WithBody"]
                         ELSE [BufIntoInner(c) EXCEPT !.variant = "NoBody"]
        /\ pc' = "open"
        /\ UNCHANGED <<src, input, body, delivered, lastRet, hist, hdr, server, exch, httpClient,
                       keep, parser, headers, urlRun, statusRun, wire>>

NextSend ==
    \/ BuilderNew
    \/ BuilderAddEncoding
    \/ BuilderSend
    \/ Write
    \/ FinishTerminator
    \/ FinishFlush

SpecSend == InitBuilder /\ [][NextSend]_vars

(***************************************************************************)
(* HttpStatus: from_code and to_code.                                      *)
(***************************************************************************)
MaxCode == 600      \* largest status code given to from_code

InitStatus ==
    /\ pc = "status"
    /\ \E code \in 0..MaxCode : statusRun = [NoStatus EXCEPT !.code = code]
    /\ urlRun = NoUrl
    /\ headers = NoHeaders
    /\ parser = NoParser
    /\ httpClient = NewHttpClient
    /\ keep = NoKeepAlive
    /\ server = NewServer
    /\ client = NewClient
    /\ src = NoSource
    /\ input = <<>>
    /\ hdr = [encoding |-> None, content_length |-> None]
    /\ body = HttpBodyNew(None, None)
    /\ delivered = <<>>
    /\ lastRet = "none"
    /\ hist = NoHist
    /\ exch = NoExchange
    /\ wire = NoWire

StatusIdle ==
    <<src, input, body, delivered, lastRet, hist, hdr, pc, client, server, exch, httpClient, keep,
      parser, headers, urlRun, wire>>

\* HttpStatus::from_code(code)
StatusFromCode ==
    /\ pc = "status"
    /\ statusRun.status = None
    /\ statusRun' = [statusRun EXCEPT !.status = Some(FromCode(statusRun.code))]
    /\ UNCHANGED StatusIdle

\* status.to_code()
StatusToCode ==
    /\ pc = "status"
    /\ statusRun.status # None
    /\ statusRun.back = None
    /\ statusRun' = [statusRun EXCEPT !.back = Some(ToCode(statusRun.status[1]))]
    /\ UNCHANGED StatusIdle

NextStatus ==
    \/ StatusFromCode
    \/ StatusToCode

SpecStatus == InitStatus /\ [][NextStatus]_vars

(***************************************************************************)
(* Url: FromStr and Display.                                               *)
(***************************************************************************)
\* impl FromStr for Scheme: the lower-cased name decides.
SchemeFromStr(s) ==
    LET l == ToLowercase(s) IN
    IF l = <<"h", "t", "t", "p">> THEN [variant |-> "Http", name |-> <<>>]
    ELSE IF l = <<"h", "t", "t", "p", "s">> THEN [variant |-> "Https", name |-> <<>>]
    ELSE IF l = <<"f", "i", "l", "e">> THEN [variant |-> "File", name |-> <<>>]
    ELSE [variant |-> "Other", name |-> l]

\* impl Display for Scheme
SchemeDisplay(scheme) ==
    CASE scheme.variant = "Http" -> <<"h", "t", "t", "p">>
      [] scheme.variant = "Https" -> <<"h", "t", "t", "p", "s">>
      [] scheme.variant = "File" -> <<"f", "i", "l", "e">>
      [] scheme.variant = "Other" -> scheme.name

\* str::split(div): the pieces between the dividers, empty ones too.
RECURSIVE SplitOn(_, _, _)
SplitOn(s, div, piece) ==
    IF s = <<>> THEN <<piece>>
    ELSE IF Head(s) = div THEN <<piece>> \o SplitOn(Tail(s), div, <<>>)
    ELSE SplitOn(Tail(s), div, Append(piece, Head(s)))

\* percent_decode(s): how it ends, and the bytes of the String it gives.
PercentDecodeStr(s) ==
    LET o == PercentDecode([s |-> s, position |-> 0, op |-> "none", ret |-> "none"], <<>>)
    IN  [ret |-> o.p.ret, value |-> o.value]

\* impl FromStr for Path: the non-empty pieces between '/', each percent-decoded; the first
\* piece that fails ends the parse.
PathFromStr(s) ==
    LET pieces == SelectSeq(SplitOn(s, "/", <<>>), LAMBDA x : x # <<>>)
        decoded == [i \in 1..Len(pieces) |-> PercentDecodeStr(pieces[i])]
        bad == {i \in 1..Len(pieces) : decoded[i].ret # "ok"}
    IN  IF bad # {}
        THEN [ret |-> decoded[CHOOSE i \in bad : \A j \in bad : i <= j].ret,
              path |-> [components |-> <<>>, trailing_slash |-> FALSE]]
        ELSE [ret |-> "ok",
              path |-> [components |-> [i \in 1..Len(pieces) |-> decoded[i].value],
                        trailing_slash |-> s # <<>> /\ s[Len(s)] = "/"]]

\* str::parse::<u16>: an optional '+', then one or more decimal digits, at most 65535; -1
\* is Err.
RECURSIVE DecimalValue(_, _)
DecimalValue(s, acc) ==
    IF s = <<>> THEN acc
    ELSE IF ~\E i \in 1..10 : AsciiDigits[i] = Head(s) THEN -1
    ELSE IF acc * 10 + (ByteOf(Head(s)) - 48) > 65535 THEN -1
    ELSE DecimalValue(Tail(s), acc * 10 + (ByteOf(Head(s)) - 48))

ParseU16(s) ==
    IF s = <<>> THEN -1
    ELSE IF Head(s) = "+" THEN (IF Len(s) = 1 THEN -1 ELSE DecimalValue(Tail(s), 0))
    ELSE DecimalValue(s, 0)

\* `{}` of a u16
RECURSIVE ToDecimal(_)
ToDecimal(n) ==
    IF n < 10 THEN <<AsciiDigits[n + 1]>>
    ELSE ToDecimal(n \div 10) \o <<AsciiDigits[(n % 10) + 1]>>

\* parse_until(..).or_else(|_| parser.parse_remaining())
OrElseRemaining(o) == IF o.p.ret = "ok" THEN o ELSE ParseRemaining(o.p)

\* The text a parse step gave, "" where it gave none (unwrap_or("")).
UnwrapOrEmpty(o) == IF o.p.ret = "ok" THEN o.value ELSE <<>>

FailedUrl(ret) == [ret |-> ret, url |-> EmptyUrl]

\* impl FromStr for Url
UrlFromStr(s) ==
    LET p0 == [s |-> s, position |-> 0, op |-> "none", ret |-> "none"]
        o1 == ParseUntil(p0, {":"})
        o2 == ParserExpect(o1.p, <<":", "/", "/">>)
        o3 == ParseUntil(o2.p, {"@"})
        p3 == IF o3.p.ret = "ok" THEN ParserExpect(o3.p, <<"@">>).p ELSE o3.p
        o4 == OrElseRemaining(ParseUntil(p3, {"/", "?", "#", ":"}))
        o5 == ParserExpect(o4.p, <<":">>)
        o6 == OrElseRemaining(ParseUntil(o5.p, {"/", "?", "#"}))
        hasPort == o5.p.ret = "ok"
        p6 == IF hasPort THEN o6.p ELSE o5.p
        o7 == OrElseRemaining(ParseUntil(p6, {"?", "#"}))
        path == PathFromStr(UnwrapOrEmpty(o7))
        o8 == ParserExpect(o7.p, <<"?">>)
        o9 == OrElseRemaining(ParseUntil(o8.p, {"#"}))
        hasQuery == o8.p.ret = "ok"
        query == PercentDecodeStr(UnwrapOrEmpty(o9))
        p9 == IF hasQuery THEN o9.p ELSE o8.p
        o10 == ParserExpect(p9, <<"#">>)
        hasFragment == o10.p.ret = "ok"
        fragment == PercentDecodeStr(UnwrapOrEmpty(ParseRemaining(o10.p)))
    IN  IF o1.p.ret # "ok" THEN FailedUrl(o1.p.ret)
        ELSE IF o2.p.ret # "ok" THEN FailedUrl(o2.p.ret)
        ELSE IF o4.p.ret # "ok" THEN FailedUrl(o4.p.ret)
        ELSE IF hasPort /\ o6.p.ret # "ok" THEN FailedUrl(o6.p.ret)
        ELSE IF hasPort /\ ParseU16(o6.value) < 0 THEN FailedUrl("err")
        ELSE IF path.ret # "ok" THEN FailedUrl(path.ret)
        ELSE IF hasQuery /\ query.ret # "ok" THEN FailedUrl(query.ret)
        ELSE IF hasFragment /\ fragment.ret # "ok" THEN FailedUrl(fragment.ret)
        ELSE [ret |-> "ok",
              url |-> [scheme |-> SchemeFromStr(o1.value),
                       authority |-> o4.value,
                       port |-> IF hasPort THEN Some(ParseU16(o6.value)) ELSE None,
                       path |-> path.path,
                       query |-> IF hasQuery THEN Some(query.value) ELSE None,
                       fragment |-> IF hasFragment THEN Some(fragment.value) ELSE None,
                       user_information |-> IF o3.p.ret = "ok" THEN Some(o3.value) ELSE None]]

\* The components, percent-encoded and joined with '/'.
RECURSIVE JoinComponents(_)
JoinComponents(components) ==
    IF components = <<>> THEN <<>>
    ELSE PercentEncode(CharsOf(Head(components)))
         \o (IF Len(components) > 1 THEN <<"/">> ELSE <<>>)
         \o JoinComponents(Tail(components))

\* impl Display for Path
PathDisplay(path) ==
    IF path.components = <<>> THEN (IF path.trailing_slash THEN <<"/">> ELSE <<>>)
    ELSE <<"/">> \o JoinComponents(path.components)
         \o (IF path.trailing_slash THEN <<"/">> ELSE <<>>)

\* Url::path: the path, "?" and the encoded query, "#" and the encoded fragment.
UrlPath(u) ==
    PathDisplay(u.path)
        \o (IF u.query # None THEN <<"?">> \o PercentEncode(CharsOf(u.query[1])) ELSE <<>>)
        \o (IF u.fragment # None THEN <<"#">> \o PercentEncode(CharsOf(u.fragment[1]))
            ELSE <<>>)

\* impl Display for Url
UrlDisplay(u) ==
    SchemeDisplay(u.scheme) \o <<":", "/", "/">>
        \o (IF u.user_information # None THEN u.user_information[1] \o <<"@">> ELSE <<>>)
        \o u.authority
        \o (IF u.port # None THEN <<":">> \o ToDecimal(u.port[1]) ELSE <<>>)
        \o UrlPath(u)

\* The pieces URL strings are made of.  Those of the grammar
\* scheme://[userinfo@]authority[:port][path][?query][#fragment] ...
SchemeTexts == {<<"h", "t", "t", "p">>, <<"H", "T", "T", "P">>, <<"f", "t", "p">>}

UserTexts == {<<>>, <<"u", "@">>}

AuthorityTexts == {<<"a">>}

PortTexts == {<<>>, <<":", "8", "0">>, <<":", "0", "8", "0">>}

PathTexts ==
    { <<>>, <<"/">>, <<"/", "b">>, <<"/", "%", "2", "f">>, <<"/", "%", "2", "F">>,
      <<"/", "%", "0", "a">>, <<"/", "/", "b", "/">> }

QueryTexts == {<<>>, <<"?">>, <<"?", "q">>}

FragmentTexts == {<<>>, <<"#", "f">>}

UrlsOf(schemes, seps, authorities) ==
    { Flatten(<<scheme, sep, user, authority, port, path, query, fragment>>) :
        scheme \in schemes, sep \in seps, user \in UserTexts, authority \in authorities,
        port \in PortTexts, path \in PathTexts, query \in QueryTexts,
        fragment \in FragmentTexts }

GrammarUrls == UrlsOf(SchemeTexts, {<<":", "/", "/">>}, AuthorityTexts)

\* URLs with an '@' in the path, the query or the fragment, and one with user-info.
AtUrls ==
    { Flatten(<<<<"h", "t", "t", "p", ":", "/", "/">>, rest>>) :
        rest \in { <<"a", "/", "p", "@", "q">>, <<"a", "?", "x", "@", "y">>,
                   <<"a", "#", "f", "@", "g">>, <<"a", ":", "8", "0", "/", "@">>,
                   <<"a", "/", "p", "?", "x", "@">>, <<"u", "@", "a", "/", "p">> } }

\* ... and strings with no scheme, no authority, or ":/" for "://".
UrlStrings ==
    UrlsOf(SchemeTexts \cup {<<>>}, {<<":", "/", "/">>, <<":", "/">>}, AuthorityTexts \cup {<<>>})
        \cup AtUrls

InitUrl ==
    /\ pc = "url"
    /\ \E s \in UrlStrings : urlRun = [NoUrl EXCEPT !.s = s, !.step = "given"]
    /\ headers = NoHeaders
    /\ parser = NoParser
    /\ httpClient = NewHttpClient
    /\ keep = NoKeepAlive
    /\ server = NewServer
    /\ client = NewClient
    /\ src = NoSource
    /\ input = <<>>
    /\ hdr = [encoding |-> None, content_length |-> None]
    /\ body = HttpBodyNew(None, None)
    /\ delivered = <<>>
    /\ lastRet = "none"
    /\ hist = NoHist
    /\ exch = NoExchange
    /\ statusRun = NoStatus
    /\ wire = NoWire

UrlIdle ==
    <<src, input, body, delivered, lastRet, hist, hdr, pc, client, server, exch, httpClient, keep,
      parser, headers, statusRun, wire>>

\* s.parse::<Url>()
UrlParse ==
    /\ pc = "url"
    /\ urlRun.step = "given"
    /\ urlRun' = [urlRun EXCEPT !.step = "parsed", !.parsed = UrlFromStr(urlRun.s)]
    /\ UNCHANGED UrlIdle

\* format!("{}", url) of the Url that was parsed
UrlFormat ==
    /\ pc = "url"
    /\ urlRun.step = "parsed"
    /\ urlRun.parsed.ret = "ok"
    /\ urlRun' = [urlRun EXCEPT !.step = "formatted", !.text = UrlDisplay(urlRun.parsed.url)]
    /\ UNCHANGED UrlIdle

\* the formatted text parsed again
UrlParseAgain ==
    /\ pc = "url"
    /\ urlRun.step = "formatted"
    /\ urlRun' = [urlRun EXCEPT !.step = "reparsed", !.again = UrlFromStr(urlRun.text)]
    /\ UNCHANGED UrlIdle

NextUrl ==
    \/ UrlParse
    \/ UrlFormat
    \/ UrlParseAgain

SpecUrl == InitUrl /\ [][NextUrl]_vars

(***************************************************************************)
(* HttpRequest and HttpResponse read from the bytes of a stream.           *)
(***************************************************************************)
\* The methods and how they are written.
MethodNames ==
    { <<"DELETE", <<"D", "E", "L", "E", "T", "E">>>>,
      <<"GET", <<"G", "E", "T">>>>,
      <<"HEAD", <<"H", "E", "A", "D">>>>,
      <<"OPTIONS", <<"O", "P", "T", "I", "O", "N", "S">>>>,
      <<"POST", <<"P", "O", "S", "T">>>>,
      <<"PUT", <<"P", "U", "T">>>>,
      <<"TRACE", <<"T", "R", "A", "C", "E">>>> }

\* char::to_uppercase of the ASCII letters
UpperOf(c) ==
    IF \E i \in 1..26 : AsciiLower[i] = c
    THEN AsciiUpper[CHOOSE i \in 1..26 : AsciiLower[i] = c]
    ELSE c

\* str::to_uppercase
ToUppercase(s) == [i \in 1..Len(s) |-> UpperOf(s[i])]

\* impl FromStr for HttpMethod: the upper-cased string is matched against the seven names.
HttpMethodFromStr(s) ==
    IF \E m \in MethodNames : m[2] = ToUppercase(s)
    THEN [ret |-> "ok", method |-> (CHOOSE m \in MethodNames : m[2] = ToUppercase(s))[1]]
    ELSE [ret |-> "err", method |-> "none"]

\* impl Display for HttpMethod
HttpMethodDisplay(m) == (CHOOSE n \in MethodNames : n[1] = m)[2]

\* impl Display for HttpVersion: "HTTP/{}.{}"
HttpVersionDisplay(v) == <<"H", "T", "T", "P", "/", v[1], ".", v[2]>>

\* str::parse::<u64> of a Content-Length value (the lengths of the model are far below
\* 65536, where the two integer types part); -1 is Err.
ParseU64(s) == ParseU16(s)

ContentLengthKey ==
    <<"C", "o", "n", "t", "e", "n", "t", "-", "L", "e", "n", "g", "t", "h">>

ChunkedText == <<"c", "h", "u", "n", "k", "e", "d">>

\* The Option<&str> that headers.get("Transfer-Encoding") hands to HttpBody::new, as the
\* value HttpBodyNew compares with "chunked".
EncodingOf(value) ==
    IF value = None THEN None
    ELSE IF value[1] = ChunkedText THEN Some("chunked")
    ELSE Some("other")

\* A deserialize that ended in an Err or a panic.
FailedDeserialize(kind, error, rest) ==
    [kind |-> kind, error |-> error, method |-> "none", uri |-> <<>>, version |-> <<>>,
     status |-> 0, headers |-> {}, encoding |-> None, content_length |-> None, rest |-> rest]

\* What follows the first line: HttpHeaders::deserialize, the two headers that frame the
\* body, and the values HttpBody::new is called with.  `first` holds what the first line
\* gave.
HeadersAndFraming(first, s) ==
    LetIn(HttpHeadersDeserialize(PeekableOf(s), <<>>), LAMBDA h :
        LET encoding == HttpHeadersGet(h.map, TransferEncodingKey)
            length == HttpHeadersGet(h.map, ContentLengthKey)
            n == IF length = None THEN 0 ELSE ParseU64(length[1])
        IN  IF h.kind = "panic" THEN FailedDeserialize("panic", "panic", h.rest)
            ELSE IF h.kind = "err" THEN FailedDeserialize("err", "header", h.rest)
            ELSE IF n < 0 THEN FailedDeserialize("err", "ParseIntError", h.rest)
            ELSE [first EXCEPT !.kind = "ok", !.error = "none", !.headers = h.map,
                               !.encoding = EncodingOf(encoding),
                               !.content_length = IF length = None THEN None ELSE Some(n),
                               !.rest = h.rest])

\* HttpRequest::deserialize(stream): the first line is "method uri version", then the
\* headers up to the empty line; the body is made over what the stream still holds.
HttpRequestDeserializeBytes(s) ==
    LetIn(ExpectNext(s), LAMBDA l :
        LET o1 == ParseToken([NoParser EXCEPT !.s = l.line])
            m == HttpMethodFromStr(o1.value)
            o2 == ParseToken(o1.p)
            o3 == ParseToken(o2.p)
            v == HttpVersionFromStr(o3.value)
        IN  IF l.kind = "err" THEN FailedDeserialize("err", l.error, l.rest)
            ELSE IF o1.p.ret # "ok" THEN FailedDeserialize(o1.p.ret, "UnexpectedEof", l.rest)
            ELSE IF m.ret # "ok" THEN FailedDeserialize("err", "Unknown method", l.rest)
            ELSE IF o2.p.ret # "ok" THEN FailedDeserialize(o2.p.ret, "UnexpectedEof", l.rest)
            ELSE IF o3.p.ret # "ok" THEN FailedDeserialize(o3.p.ret, "UnexpectedEof", l.rest)
            ELSE IF v.p.ret = "panic" THEN FailedDeserialize("panic", "panic", l.rest)
            ELSE IF v.p.ret # "ok" THEN FailedDeserialize("err", "version", l.rest)
            ELSE HeadersAndFraming(
                     [FailedDeserialize("ok", "none", <<>>) EXCEPT
                          !.method = m.method, !.uri = o2.value, !.version = v.value],
                     l.rest))

\* HttpResponse::deserialize(socket): the first line is "version status", the status being
\* the number that starts the rest of the line.
HttpResponseDeserializeBytes(s) ==
    LetIn(ExpectNext(s), LAMBDA l :
        LET o1 == ParseToken([NoParser EXCEPT !.s = l.line])
            v == HttpVersionFromStr(o1.value)
            o2 == ParseRemaining(o1.p)
            o3 == ParseToken([NoParser EXCEPT !.s = o2.value])
            code == ParseU16(o3.value)
        IN  IF l.kind = "err" THEN FailedDeserialize("err", l.error, l.rest)
            ELSE IF o1.p.ret # "ok" THEN FailedDeserialize(o1.p.ret, "UnexpectedEof", l.rest)
            ELSE IF v.p.ret = "panic" THEN FailedDeserialize("panic", "panic", l.rest)
            ELSE IF v.p.ret # "ok" THEN FailedDeserialize("err", "version", l.rest)
            ELSE IF o2.p.ret # "ok" THEN FailedDeserialize(o2.p.ret, "UnexpectedEof", l.rest)
            ELSE IF o3.p.ret # "ok" THEN FailedDeserialize(o3.p.ret, "UnexpectedEof", l.rest)
            ELSE IF code < 0 THEN FailedDeserialize("err", "ParseIntError", l.rest)
            ELSE HeadersAndFraming(
                     [FailedDeserialize("ok", "none", <<>>) EXCEPT
                          !.version = v.value, !.status = code],
                     l.rest))

\* HttpRequest::serialize up to the body: "{} {} {}\r\n", the headers, "\r\n".
HttpRequestSerializeBytes(r) ==
    HttpMethodDisplay(r.method) \o <<" ">> \o r.uri \o <<" ">> \o HttpVersionDisplay(r.version)
        \o CRLF \o HttpHeadersSerialize(r.headers) \o CRLF

\* First lines a peer may send for a request: well-formed ones (a method in lower case, a
\* run of blanks and what follows the version are let through by the parser) ...
RequestLines ==
    { <<"G", "E", "T", " ", "/", " ", "H", "T", "T", "P", "/", "1", ".", "1">>,
      <<"p", "u", "t", " ", " ", "/", "x", " ", "H", "T", "T", "P", "/", "1", ".", "0">> }

\* ... and ones that are no request line: an unknown method, no version, a version that
\* does not start with "HTTP/", one with a two-byte character in that place, no line.
BadRequestLines ==
    { <<"B", "R", "E", "W", " ", "/", " ", "H", "T", "T", "P", "/", "1", ".", "1">>,
      <<"G", "E", "T", " ", "/">>,
      <<"G", "E", "T", " ", "/", " ", "H", "T", "T", "X", "/", "1", ".", "1">>,
      <<"G", "E", "T", " ", "/", " ", "H", "T", "T", "P", "C3", "A9", "1", ".", "1">>,
      <<>> }

\* First lines of a response.
StatusLineTexts ==
    { <<"H", "T", "T", "P", "/", "1", ".", "1", " ", "2", "0", "0", " ", "O", "K">>,
      <<"H", "T", "T", "P", "/", "1", ".", "1", " ", "4", "0", "4">> }

\* Header blocks that frame the body, and ones with a line that is no header.
FramingBlocks ==
    { ContentLengthKey \o <<":", " ", "2">> \o CRLF \o CRLF,
      ToLowercase(TransferEncodingKey) \o <<":", " ">> \o ChunkedText \o CRLF \o CRLF }

BadBlocks ==
    { ContentLengthKey \o <<":", " ", "x">> \o CRLF \o CRLF,
      <<"a">> \o CRLF \o CRLF,
      <<"a", ":", "b">> \o CRLF \o CRLF,
      <<"a", ":", "C3", "A9">> \o CRLF \o CRLF }

\* What a peer may send after the empty line: nothing, a byte, an empty line of its own, and
\* bytes that look like a continuation line.
BodyTexts == {<<>>, <<"b">>, <<CR, LF, "z">>, <<" ", "y", CR, LF, CR, LF, "z">>}

\* Header blocks of one or two headers, each with zero, one or two continuation lines.
WireFolded == [key : {<<"a">>, <<"a", "b">>}, value : {<<"x">>}, folds : Folds]

HeadBlocks ==
    {HeaderBlock(fs) : fs \in {<<a>> : a \in WireFolded} \cup {<<a, b>> : a, b \in WireFolded}}
        \cup FramingBlocks

\* The heads that end before their empty line.
CutShort(s) == {SubSeq(s, 1, n) : n \in 0..(Len(s) - 1)}

PeerRequests ==
    {l \o CRLF \o h \o b : l \in RequestLines, h \in HeadBlocks, b \in BodyTexts}
        \cup {l \o CRLF \o h \o <<"b">> : l \in BadRequestLines, h \in FramingBlocks}
        \cup {l \o CRLF \o h \o <<"b">> : l \in RequestLines, h \in BadBlocks}
        \cup UNION {CutShort(l \o CRLF \o h) : l \in RequestLines, h \in FramingBlocks}

PeerResponses ==
    {l \o CRLF \o h \o b : l \in StatusLineTexts, h \in HeadBlocks, b \in BodyTexts}

\* The requests a caller may build: every method, a URI, a header map made by collect (keys
\* as given) or by insert (keys in lower case).
UriTexts == {<<"/">>, <<"/", "x">>, <<"/", CR, LF, "x">>}

BuiltRequests ==
    [method : Methods, uri : UriTexts, version : {<<"1", "1">>},
     headers : {HttpHeadersFromIter(ps) : ps \in PairLists}]

InitWire ==
    /\ pc = "wire"
    /\ wire = NoWire
    /\ src = NoSource
    /\ input = <<>>
    /\ hdr = [encoding |-> None, content_length |-> None]
    /\ body = HttpBodyNew(None, None)
    /\ delivered = <<>>
    /\ lastRet = "none"
    /\ hist = NoHist
    /\ client = NewClient
    /\ server = NewServer
    /\ exch = NoExchange
    /\ httpClient = NewHttpClient
    /\ keep = NoKeepAlive
    /\ parser = NoParser
    /\ headers = NoHeaders
    /\ urlRun = NoUrl
    /\ statusRun = NoStatus

WireIdle ==
    <<src, delivered, lastRet, hist, client, server, exch, httpClient, keep, parser, headers,
      urlRun, statusRun>>

\* A peer has written a request to the stream.
PeerWritesRequest ==
    /\ pc = "wire"
    /\ wire.what = "none"
    /\ \E s \in PeerRequests : wire' = [wire EXCEPT !.what = "request", !.given = s]
    /\ UNCHANGED <<pc, input, hdr, body>>
    /\ UNCHANGED WireIdle

\* A peer has written a response to the stream.
PeerWritesResponse ==
    /\ pc = "wire"
    /\ wire.what = "none"
    /\ \E s \in PeerResponses : wire' = [wire EXCEPT !.what = "response", !.given = s]
    /\ UNCHANGED <<pc, input, hdr, body>>
    /\ UNCHANGED WireIdle

\* request.serialize(w): the request line and the headers of a request the caller built.
SerializeRequest ==
    /\ pc = "wire"
    /\ wire.what = "none"
    /\ \E r \in BuiltRequests :
           wire' = [wire EXCEPT !.what = "request", !.sent = <<r>>,
                                !.given = HttpRequestSerializeBytes(r)]
    /\ UNCHANGED <<pc, input, hdr, body>>
    /\ UNCHANGED WireIdle

\* The body HttpBody::new makes once the head has been read, over the rest of the stream.
BodyOver(d) ==
    IF d.kind = "ok"
    THEN /\ hdr' = [encoding |-> d.encoding, content_length |-> d.content_length]
         /\ body' = HttpBodyNew(d.encoding, d.content_length)
         /\ input' = d.rest
         /\ pc' = "body"
    ELSE UNCHANGED <<pc, input, hdr, body>>

\* HttpRequest::deserialize on the stream
DeserializeRequest ==
    /\ pc = "wire"
    /\ wire.what = "request"
    /\ wire.got = <<>>
    /\ \E d \in {HttpRequestDeserializeBytes(wire.given)} :
       /\ wire' = [wire EXCEPT !.got = <<d>>]
       /\ BodyOver(d)
    /\ UNCHANGED WireIdle

\* HttpResponse::deserialize on the stream
DeserializeResponse ==
    /\ pc = "wire"
    /\ wire.what = "response"
    /\ wire.got = <<>>
    /\ \E d \in {HttpResponseDeserializeBytes(wire.given)} :
       /\ wire' = [wire EXCEPT !.got = <<d>>]
       /\ BodyOver(d)
    /\ UNCHANGED WireIdle

NextWire ==
    \/ PeerWritesRequest
    \/ PeerWritesResponse
    \/ SerializeRequest
    \/ DeserializeRequest
    \/ DeserializeResponse
    \/ BodyRead

SpecWire == InitWire /\ [][NextWire]_vars

(***************************************************************************)
(* A CrLfStream over a stream of bytes, asked for item after item.         *)
(***************************************************************************)
MaxCrLfLen == 6     \* bytes in a stream a CrLfStream is made over
MaxItems == 3       \* calls of next and expect_next on one CrLfStream

\* The streams: every string of up to MaxCrLfLen bytes out of a letter, CR and LF, and some
\* with bytes that are not ASCII.
CrLfInputs ==
    UNION {[1..n -> {"a", CR, LF}] : n \in 0..MaxCrLfLen}
        \cup { <<"C3", "A9", CR, LF, "a", CR, LF>>, <<"A9", CR, LF, "a", CR, LF>>,
               <<"a", "C3", CR, LF, CR, LF>> }

InitCrLf ==
    /\ pc = "crlf"
    /\ \E s \in CrLfInputs :
          /\ input = s
          /\ wire = [NoWire EXCEPT !.what = "lines", !.given = s]
    /\ src = NoSource
    /\ hdr = [encoding |-> None, content_length |-> None]
    /\ body = HttpBodyNew(None, None)
    /\ delivered = <<>>
    /\ lastRet = "none"
    /\ hist = NoHist
    /\ client = NewClient
    /\ server = NewServer
    /\ exch = NoExchange
    /\ httpClient = NewHttpClient
    /\ keep = NoKeepAlive
    /\ parser = NoParser
    /\ headers = NoHeaders
    /\ urlRun = NoUrl
    /\ statusRun = NoStatus

\* What a call gave, as it is kept in the run.
ItemOf(op, r) == [op |-> op, kind |-> r.kind, error |-> r.error, line |-> r.line]

\* Iterator::next on the CrLfStream
CrLfNext ==
    /\ pc = "crlf"
    /\ Len(wire.got) < MaxItems
    /\ LET r == InnerNext(input) IN
       /\ input' = r.rest
       /\ wire' = [wire EXCEPT !.got = Append(@, ItemOf("next", r))]
    /\ UNCHANGED <<pc>>
    /\ UNCHANGED WireIdle
    /\ UNCHANGED <<hdr, body>>

\* CrLfStream::expect_next
CrLfExpectNext ==
    /\ pc = "crlf"
    /\ Len(wire.got) < MaxItems
    /\ LET r == ExpectNext(input) IN
       /\ input' = r.rest
       /\ wire' = [wire EXCEPT !.got = Append(@, ItemOf("expect_next", r))]
    /\ UNCHANGED <<pc>>
    /\ UNCHANGED WireIdle
    /\ UNCHANGED <<hdr, body>>

NextCrLf ==
    \/ CrLfNext
    \/ CrLfExpectNext

SpecCrLf == InitCrLf /\ [][NextCrLf]_vars

(***************************************************************************)
(* serve_one on the bytes a peer has sent.                                 *)
(***************************************************************************)
\* self.connection_stream.accept()?: a stream with the bytes of a peer, or an error.
AcceptBytes ==
    /\ pc = "server"
    /\ server.pc = "accept"
    /\ \/ \E s \in PeerRequests :
              /\ server' = [server EXCEPT !.pc = "deserialize", !.events = Append(@, "accept")]
              /\ input' = s
              /\ wire' = [wire EXCEPT !.what = "request", !.given = s]
       \/ /\ server' = [server EXCEPT !.pc = "done", !.result = "err"]
          /\ UNCHANGED <<input, wire>>
    /\ UNCHANGED <<pc, client, src, hdr, body, delivered, lastRet, hist, exch, httpClient, keep,
                   parser, headers, urlRun, statusRun>>

\* HttpRequest::deserialize(BufReader::new(stream))? in serve_one_inner: the request, an
\* error that becomes the response, or a panic that unwinds out of serve_one.
DeserializeBytes ==
    /\ pc = "server"
    /\ server.pc = "deserialize"
    /\ \E d \in {HttpRequestDeserializeBytes(input)} :
       /\ wire' = [wire EXCEPT !.got = <<d>>]
       /\ CASE d.kind = "ok" ->
                 /\ server' = [server EXCEPT !.pc = "dispatch", !.method = d.method,
                                             !.uri = d.uri, !.parses = TRUE,
                                             !.events = Append(@, "read")]
                 /\ hdr' = [encoding |-> d.encoding, content_length |-> d.content_length]
                 /\ body' = HttpBodyNew(d.encoding, d.content_length)
                 /\ input' = d.rest
            [] d.kind = "err" ->
                 /\ server' = [server EXCEPT !.pc = "respond", !.parses = FALSE,
                                             !.events = Append(@, "read"),
                                             !.response = Some(FromError(d.error))]
                 /\ UNCHANGED <<hdr, body, input>>
            [] d.kind = "panic" ->
                 /\ server' = [server EXCEPT !.pc = "done", !.parses = FALSE,
                                             !.result = "panic"]
                 /\ UNCHANGED <<hdr, body, input>>
    /\ UNCHANGED <<pc, client, src, delivered, lastRet, hist, exch, httpClient, keep, parser,
                   headers, urlRun, statusRun>>

NextServeBytes ==
    \/ AcceptBytes
    \/ DeserializeBytes
    \/ Dispatch
    \/ WriteResponseHead
    \/ CopyResponseBody

SpecServeBytes == InitServer /\ [][NextServeBytes]_vars

(***************************************************************************)
(* The request line of a request built for a URL.                          *)
(***************************************************************************)
\* HttpRequest::new(method, uri_in): an empty URI becomes "/"; HTTP/1.1, no headers.
HttpRequestNew(method, uri_in) ==
    [method |-> method, uri |-> IF uri_in = <<>> THEN <<"/">> ELSE uri_in,
     version |-> <<"1", "1">>, headers |-> {}]

\* HttpRequestBuilder::new(url, method) for the URL that was parsed, and the first line that
\* send writes for its request: "{} {} {}\r\n".
UrlBuildRequest ==
    /\ pc = "url"
    /\ urlRun.step = "parsed"
    /\ urlRun.parsed.ret = "ok"
    /\ \E m \in Methods :
         urlRun' = [urlRun EXCEPT
                       !.step = "request",
                       !.text = HttpRequestSerializeBytes(
                                    HttpRequestNew(m, UrlPath(urlRun.parsed.url)))]
    /\ UNCHANGED UrlIdle

NextUrlRequest ==
    \/ UrlParse
    \/ UrlBuildRequest

SpecUrlRequest == InitUrl /\ [][NextUrlRequest]_vars

(***************************************************************************)
(* Claims about the chunked reader.                                        *)
(***************************************************************************)
\* The stream holds every chunk and the zero-size line, with plain hex size lines.
WellFormed ==
    /\ src.style \in {"lower", "upper", "padded"}
    /\ src.cut >= ZeroLineEnd(src.chunks, src.style)

\* The stream ends before the zero-size line is complete, or a size line is not hex.
Faulty ==
    \/ src.cut < ZeroLineEnd(src.chunks, src.style)
    \/ src.style \in {"plus", "nonhex"}

\* C1: on a well-formed chunked stream read with non-empty buffers, the bytes returned
\* so far are a prefix of the concatenated chunk payloads, no read fails, and a read
\* returns 0 only when all of the payloads have been returned.
C1_ChunkedDecode ==
    (WellFormed /\ ~hist.anyEmpty) =>
        /\ lastRet # "err"
        /\ IsPrefix(delivered, Flatten(src.chunks))
        /\ (lastRet = "end" => delivered = Flatten(src.chunks))

C1_Witness ==
    /\ WellFormed /\ ~hist.anyEmpty
    /\ Len(src.chunks) >= 2
    /\ src.chunks[1] # src.chunks[2]
    /\ src.style = "upper"
    /\ lastRet = "end"
    /\ delivered = Flatten(src.chunks)

\* C2: a read with a non-empty buffer returns Ok(0) only if the zero-size chunk line has
\* been consumed by this or an earlier read, also after an earlier read returned an error.
C2_ZeroOnlyAfterZeroLine ==
    (lastRet = "end" /\ ~hist.anyEmpty) => hist.zeroSeen

\* Every stream cut short before the end of the zero-size line, and every stream whose
\* size lines carry a character that is no hex digit and no leading '+', ends in an error.
TruncatedOrBadDigitIsError ==
    (Faulty /\ src.style # "plus" /\ ~hist.anyEmpty /\ lastRet = "end") => hist.errored

\* C3: when the stream reaches EOF before the zero-size line has been read, or a size
\* line is not a hexadecimal number, reading to the end (up to the first Ok(0) or error)
\* ends with an error and not with a clean end of body.
C3_TruncatedOrNonHexIsError ==
    (Faulty /\ ~hist.anyEmpty /\ lastRet = "end") => hist.errored

(***************************************************************************)
(* Claims about HttpBody::new and the Limited body.                        *)
(***************************************************************************)
IsChunkedHdr == hdr.encoding = Some("chunked")

\* C7: HttpBody::new gives Chunked exactly when the transfer-encoding value is "chunked"
\* (keeping a content-length as metadata), else Limited(n) when a content-length n is
\* present, else ReadTilClose; content_length() of the new body is the metadata, Some(n)
\* and None respectively.
C7_BodyVariant ==
    /\ (body.kind = "Chunked") = IsChunkedHdr
    /\ (body.kind = "Limited") = (~IsChunkedHdr /\ hdr.content_length # None)
    /\ (body.kind = "ReadTilClose") = (~IsChunkedHdr /\ hdr.content_length = None)
    /\ (lastRet = "none" =>
            ContentLength(body) = IF body.kind = "ReadTilClose" THEN None ELSE hdr.content_length)

C7_Witness ==
    /\ IsChunkedHdr /\ hdr.content_length = Some(2)
    /\ body.kind = "Chunked" /\ lastRet = "none"
    /\ ContentLength(body) = Some(2)

\* The first min(n, k) bytes of the stream of k bytes under a Limited(n) body.
LimitedExpected ==
    SubSeq(StreamOf(src), 1, Min(hdr.content_length[1], Len(StreamOf(src))))

\* C8: a Limited(n) body over a stream of k bytes delivers a prefix of the first min(n, k)
\* bytes, never fails, and a read with a non-empty buffer returns 0 only once exactly the
\* first min(n, k) bytes have been delivered (so reads after the n-th byte return 0).
C8_LimitedDelivers ==
    body.kind = "Limited" =>
        /\ lastRet # "err"
        /\ IsPrefix(delivered, LimitedExpected)
        /\ (lastRet = "end" /\ ~hist.anyEmpty => delivered = LimitedExpected)

C8_Witness ==
    /\ body.kind = "Limited" /\ ~hist.anyEmpty /\ lastRet = "end"
    /\ hdr.content_length = Some(2) /\ Len(StreamOf(src)) > 2
    /\ delivered = SubSeq(StreamOf(src), 1, 2)

(***************************************************************************)
(* Claims about the sending side.                                          *)
(***************************************************************************)
\* C4: after any writes (empty ones included) on an OutgoingBody and finish, decoding the
\* body bytes on the wire with HttpChunkedBody (non-empty buffers) never fails, returns a
\* prefix of the concatenated written buffers, and returns 0 only when all of them have
\* been returned.
C4_WriteDecodeRoundTrip ==
    (pc = "body" /\ client.variant = "WithBody" /\ ~hist.anyEmpty) =>
        /\ lastRet # "err"
        /\ IsPrefix(delivered, client.written)
        /\ (lastRet = "end" => delivered = client.written)

C4_Witness ==
    /\ pc = "body" /\ client.variant = "WithBody" /\ ~hist.anyEmpty
    /\ client.writes = 2
    /\ client.lastWrite.buf = <<>>
    /\ client.written = LongPayload
    /\ lastRet = "end"
    /\ delivered = client.written

LowerHexChars == { LowerHex[i] : i \in 1..16 }

\* bytes is hex(|buf|) CRLF buf CRLF: a size line of lower-case hex digits with no leading
\* zero whose value is |buf|, then CRLF, buf and CRLF.
IsChunkOf(bytes, buf) ==
    \E d \in 1..Len(bytes) :
        LET line == SubSeq(bytes, 1, d) IN
        /\ \A i \in 1..d : line[i] \in LowerHexChars
        /\ line[1] # "0"
        /\ DigitsValue(line, 0) = Len(buf)
        /\ bytes = line \o <<CR, LF>> \o buf \o <<CR, LF>>

\* C5: each write(buf) on an OutgoingBody returns |buf|; with |buf| > 0 it appends exactly
\* hex(|buf|) CRLF buf CRLF to the bytes written to the stream, with an empty buf nothing.
C5_WriteIsOneChunk ==
    [][ (pc = "open" /\ pc' = "open" /\ client.variant = "WithBody") =>
            LET buf == client'.lastWrite.buf
                added == Drop(Out(client'), Len(Out(client)))
            IN  /\ client'.lastWrite.ret = "ok"
                /\ client'.lastWrite.n = Len(buf)
                /\ client'.written = client.written \o buf
                /\ IsPrefix(Out(client), Out(client'))
                /\ IF buf = <<>> THEN added = <<>> ELSE IsChunkOf(added, buf) ]_vars

C5_Witness ==
    /\ pc = "open" /\ client.variant = "WithBody"
    /\ client.writes = 2
    /\ client.lastWrite = [buf |-> LongPayload, ret |-> "ok", n |-> LongLen]
    /\ client.written = <<"a">> \o LongPayload

\* C6: when the first byte of the response is read, the BufWriter holds nothing, the
\* stream has been flushed, and the wire carries the request line and headers and, for
\* WithBody, every written byte and the terminating 0 CRLF CRLF at the end.
C6_SendBeforeRead ==
    client.responseReads > 0 =>
        /\ client.bw = <<>>
        /\ client.flushed
        /\ IsPrefix(<<client.method, " ", "/", " ", "HTTP/1.1", CR, LF>>, client.wire)
        /\ (client.variant = "WithBody" =>
                /\ Len(client.wire) >= 7 + Len(client.written) + 5
                /\ Drop(client.wire, Len(client.wire) - 5) = <<"0", CR, LF, CR, LF>>)
        /\ (client.variant = "NoBody" =>
                client.wire = <<client.method, " ", "/", " ", "HTTP/1.1", CR, LF, CR, LF>>)

C6_Witness ==
    /\ client.responseReads > 0
    /\ client.variant = "WithBody"
    /\ client.writes = 2
    /\ client.written = <<"a", "b", "a">>

\* C9: serialize gives WithBody exactly for DELETE, POST and PUT and NoBody for GET, HEAD,
\* OPTIONS and TRACE; on a NoBody request no write succeeds and the bytes written to the
\* stream stay the request line and the empty line.
C9_VariantByMethod ==
    client.variant # "unsent" =>
        /\ (client.variant = "WithBody") = (client.method \in {"DELETE", "POST", "PUT"})
        /\ (client.variant = "NoBody") = (client.method \in {"GET", "HEAD", "OPTIONS", "TRACE"})
        /\ (client.variant = "NoBody" =>
                /\ client.lastWrite.ret # "ok"
                /\ client.written = <<>>
                /\ Out(client) = <<client.method, " ", "/", " ", "HTTP/1.1", CR, LF, CR, LF>>)

C9_Witness ==
    /\ client.variant = "NoBody"
    /\ client.method = "TRACE"
    /\ client.writes = 2
    /\ client.lastWrite = [buf |-> <<"a">>, ret |-> "err", n |-> 0]

(***************************************************************************)
(* Claims about the server.                                                *)
(***************************************************************************)
AfterDispatch == server.pc \in {"respond", "copy", "done"} /\ server.result # "err"

LengthGiven == hdr.encoding = Some("chunked") \/ hdr.content_length # None

\* C10: for a POST or PUT request that parses, when the headers carry neither
\* transfer-encoding: chunked nor a content-length no handler operation is invoked and
\* the response written is 411 Length Required; otherwise the handler's post or put is
\* invoked once with the Chunked or Limited body.
C10_LengthRequired ==
    (AfterDispatch /\ server.parses /\ server.method \in {"POST", "PUT"}) =>
        IF LengthGiven
        THEN /\ Len(server.calls) = 1
             /\ server.calls[1].op = server.method
             /\ server.calls[1].body =
                    (IF hdr.encoding = Some("chunked") THEN "Chunked" ELSE "Limited")
        ELSE /\ server.calls = <<>>
             /\ server.response = Some([status |-> "411 Length Required",
                                         text |-> "length required"])
             /\ (server.pc = "done" =>
                    server.out = <<"HTTP/1.1", " ", "411 Length Required", CR, LF, CR, LF,
                                   "length required">>)

C10_Witness ==
    /\ server.pc = "done" /\ server.result = "ok" /\ server.parses
    /\ server.method = "PUT"
    /\ hdr = [encoding |-> Some("Chunked"), content_length |-> None]
    /\ server.calls = <<>>
    /\ server.out[3] = "411 Length Required"

HandlerErred == server.calls # <<>> /\ server.calls[1].ret \in {"LengthRequired", "Other"}

\* C11: when the handler operation returns an error, the response is 411 Length Required
\* for Error::LengthRequired and 500 Internal Server Error carrying the error text for
\* every other error; serve_one writes the whole of it (status line, empty line, body)
\* and returns Ok unless a write to the stream fails.
C11_HandlerErrorBecomesResponse ==
    HandlerErred =>
        LET e == server.calls[1].ret
            status == IF e = "LengthRequired" THEN "411 Length Required"
                      ELSE "500 Internal Server Error"
            text == IF e = "LengthRequired" THEN "length required" ELSE e
        IN  /\ server.response = Some([status |-> status, text |-> text])
            /\ (server.pc = "done" => ((server.result = "err") = server.writeFailed))
            /\ (server.pc = "done" /\ ~server.writeFailed =>
                    /\ server.result = "ok"
                    /\ server.out = <<"HTTP/1.1", " ", status, CR, LF, CR, LF, text>>)

C11_Witness ==
    /\ HandlerErred
    /\ server.calls[1].ret = "LengthRequired"
    /\ server.method = "GET"
    /\ server.pc = "done" /\ server.result = "ok"
    /\ server.out[3] = "411 Length Required"
    /\ server.out[8] = "length required"

ServeOneOrder == <<"accept", "read", "handler", "head", "body">>

OrderIndex(e) == CHOOSE i \in 1..Len(ServeOneOrder) : ServeOneOrder[i] = e

ExchangeDone == pc = "end" /\ exch.spc = "done"

\* Some step of the client, of the server or of the kernel can be taken.
ClientCanStep ==
    \/ pc = "build" /\ ~exch.connected
    \/ exch.connected /\ ClientSocketIdle /\ pc \in {"build", "open", "flush"}
    \/ pc = "read" /\ ReadLines(exch.cbuf, <<>>).kind = "ok"
    \/ pc = "read" /\ ClientSocketIdle /\ ResponsePipe # <<>>
    \/ pc = "returned" /\ (ResponsePipe # <<>> \/ ResponseEof)

ServerCanStep ==
    \/ exch.connected /\ ServerBlocked /\ RequestPipe # <<>>
    \/ exch.connected /\ exch.spc = "accept" /\ ~ServerBlocked
    \/ exch.spc = "dispatch" /\ (server.method = "GET" \/ RequireLength(body))
    \/ exch.spc = "handler" /\ ~ServerBlocked
    \/ exch.spc = "respond"
    \/ exch.spc \in {"copy", "close"} /\ ServerSocketIdle

KernelCanStep ==
    \/ exch.sent < Len(client.wire) /\ (exch.sent - exch.rd < PipeCap \/ exch.closed)
    \/ exch.osent < Len(server.out) /\ (exch.osent - exch.ord < PipeCap \/ pc = "end")

\* C14: with serve_one and a one-shot get or put on the two ends of one connection, as
\* long as one of the two calls has not come to its end some step can be taken (no
\* deadlock); for put the handler, reading the body to its end, reads exactly the bytes the
\* client wrote as the body; and the body stream the client is given yields exactly the
\* handler's response body and then end of stream.
C14_ExchangeTerminates ==
    /\ ExchangeDone \/ ClientCanStep \/ ServerCanStep \/ KernelCanStep
    /\ IsPrefix(exch.handlerGot, client.written)
    /\ IsPrefix(exch.got, exch.respBody)
    /\ (server.calls # <<>> /\ server.method = "PUT" => exch.handlerGot = client.written)
    /\ (exch.result # "none" =>
            (exch.result = "body") = (server.response[1].status = "200 OK"))
    /\ (pc = "end" /\ exch.result = "body" =>
            /\ exch.closed /\ server.result = "ok"
            /\ exch.got = exch.respBody)

C14_Witness ==
    /\ ExchangeDone
    /\ server.method = "PUT"
    /\ client.writes = 2
    /\ client.written = <<"a", "a", "b">>
    /\ exch.handlerGot = client.written
    /\ exch.result = "body"
    /\ exch.got = <<"0", CR, LF>>

(***************************************************************************)
(* Claims about HttpClient and the one-shot calls.                         *)
(***************************************************************************)
\* The calls of connect that get_stream has made for an identity.
ClientConnects(id) ==
    {i \in DOMAIN httpClient.connects :
        httpClient.connects[i].api = "client" /\ httpClient.connects[i].id = id}

\* C15, as it is worded: the cache holds at most one stream per identity, connect has been
\* called at most once for each identity in the cache, and every request is on the stream
\* connected for its own identity.
C15_ConnectCalledOncePerIdentity ==
    /\ \A e1, e2 \in httpClient.streams : e1.id = e2.id => e1 = e2
    /\ \A e \in httpClient.streams : Cardinality(ClientConnects(e.id)) <= 1
    /\ \A i \in DOMAIN httpClient.wires : \A j \in DOMAIN httpClient.wires[i] :
          httpClient.wires[i][j].id = httpClient.connects[i].id

\* C15, amended: the cache holds at most one stream per identity; for each identity in the
\* cache connect has succeeded exactly once, that call made the cached stream, and connect
\* has not been called for the identity since (calls that failed may come before it); every
\* request is on the stream connected for its own identity, and a request made through the
\* HttpClient is the last thing written to the cached stream of its identity.
C15_OneStreamPerIdentity ==
    /\ \A e1, e2 \in httpClient.streams : e1.id = e2.id => e1 = e2
    /\ \A e \in httpClient.streams :
          /\ e.stream \in ClientConnects(e.id)
          /\ \A i \in ClientConnects(e.id) :
                /\ i <= e.stream
                /\ httpClient.connects[i].outcome = "ok" <=> i = e.stream
    /\ \A i \in DOMAIN httpClient.wires : \A j \in DOMAIN httpClient.wires[i] :
          httpClient.wires[i][j].id = httpClient.connects[i].id
    /\ httpClient.last.api = "client" /\ httpClient.last.ret = "ok" =>
          /\ [id |-> httpClient.last.id[1], stream |-> httpClient.last.stream]
                \in httpClient.streams
          /\ httpClient.wires[httpClient.last.stream] # <<>>
          /\ httpClient.wires[httpClient.last.stream]
                [Len(httpClient.wires[httpClient.last.stream])].id = httpClient.last.id[1]

\* C15: a connect for an identity failed, a later call connected it, and the call after that
\* used the cached stream again: two requests are on it.
C15_Witness ==
    \E e \in httpClient.streams :
        /\ Cardinality(ClientConnects(e.id)) = 2
        /\ Len(httpClient.wires[e.stream]) = 2
        /\ httpClient.last.api = "client"
        /\ httpClient.last.stream = e.stream

\* The step is a call whose connect failed (TCP connect or TLS handshake).
ConnectFailed ==
    /\ Len(httpClient'.connects) = Len(httpClient.connects) + 1
    /\ httpClient'.connects[Len(httpClient'.connects)].outcome # "ok"

\* The step is a call whose URL did not resolve.
ResolveFailed ==
    /\ httpClient'.calls = httpClient.calls + 1
    /\ httpClient'.last.id = None

\* C17: a call (HttpClient::get/put or one-shot) whose resolve or connect fails returns that
\* error, writes no request byte, attempts no response read and adds no cache entry.
C17_FailedConnectWritesNothing ==
    [][ResolveFailed \/ ConnectFailed =>
          /\ httpClient'.last.ret = "err"
          /\ httpClient'.last.error =
                IF ResolveFailed THEN "AddrNotAvailable"
                ELSE httpClient'.connects[Len(httpClient'.connects)].outcome
          /\ httpClient'.streams = httpClient.streams
          /\ \A i \in DOMAIN httpClient'.wires :
                /\ httpClient'.wires[i] =
                      IF i \in DOMAIN httpClient.wires THEN httpClient.wires[i] ELSE <<>>
                /\ httpClient'.reads[i] =
                      IF i \in DOMAIN httpClient.reads THEN httpClient.reads[i] ELSE 0]_vars

\* C17: an HttpClient that holds a stream it has written to makes a call whose TLS handshake
\* fails.
C17_Witness ==
    /\ httpClient.last.api = "client"
    /\ httpClient.last.ret = "err"
    /\ httpClient.last.error = "SslError"
    /\ \E e \in httpClient.streams : httpClient.wires[e.stream] # <<>>
    /\ \E i \in DOMAIN httpClient.connects :
          httpClient.connects[i].api = "oneshot" /\ httpClient.connects[i].outcome = "IoError"

\* The number a three-digit status code stands for.
CodeNumber(code) == 100 * DigitValue(code[1]) + 10 * DigitValue(code[2]) + DigitValue(code[3])

\* C18: a one-shot call that has read a response returns the body exactly when the status
\* code of the response is 200 (whatever the reason phrase says); for every other code,
\* other 2xx and unknown codes included, it returns UnexpectedStatus with that status.
C18_OnlyOkReturnsBody ==
    httpClient.last.api = "oneshot" /\ httpClient.last.line # None =>
        LET line == httpClient.last.line[1] IN
        /\ httpClient.last.ret = "ok" <=> line.code = <<"2", "0", "0">>
        /\ httpClient.last.ret = "ok" => httpClient.last.error = ""
        /\ httpClient.last.ret # "ok" =>
              /\ httpClient.last.ret = "err"
              /\ httpClient.last.error = "UnexpectedStatus"
              /\ httpClient.last.status[1].code = CodeNumber(line.code)
              /\ httpClient.last.status[1].variant # "Unknown" <=>
                    CodeNumber(line.code) \in KnownCodes

\* C18: the peer answered a one-shot call with 299, a 2xx code that has no variant.
C18_Witness ==
    /\ httpClient.last.api = "oneshot"
    /\ httpClient.last.line = Some([code |-> <<"2", "9", "9">>, reason |-> "OK"])
    /\ httpClient.last.error = "UnexpectedStatus"
    /\ httpClient.last.status = Some([variant |-> "Unknown", code |-> 299])

(***************************************************************************)
(* Claims about requests one after another on one stream.                  *)
(***************************************************************************)
\* C16: with every body read to its end before the next request is sent, each finish returns
\* the response to its own request (its status, and the body that follows is its body).
C16_EachFinishItsOwnResponse ==
    \A i \in DOMAIN keep.results :
        /\ keep.results[i].ret = "ok"
        /\ keep.results[i].status = keep.sent[i].status
        /\ keep.results[i].body = Flatten(keep.sent[i].chunks)

(***************************************************************************)
(* Claims about the Parser.                                                *)
(***************************************************************************)
\* C19: whatever the string, multi-byte characters included, no Parser operation and no
\* parser built on them (HTTP version, percent_decode) panics: each returns a value or an
\* Error.
C19_ParserNeverPanics == parser.ret # "panic"

(***************************************************************************)
(* Claims about HttpHeaders.                                               *)
(***************************************************************************)
\* Two keys are the same but for the case of their letters.
EqualIgnoringCase(k1, k2) ==
    /\ Len(k1) = Len(k2)
    /\ \A i \in 1..Len(k1) :
          \/ k1[i] = k2[i]
          \/ \E n \in 1..26 : {k1[i], k2[i]} = {AsciiLower[n], AsciiUpper[n]}

\* The value of the last insert whose key is k but for case, if there was one.
LastInserted(k) ==
    LET hits == {i \in DOMAIN headers.log : EqualIgnoringCase(headers.log[i].key, k)} IN
    IF hits = {} THEN None
    ELSE Some(headers.log[CHOOSE i \in hits : \A j \in hits : j <= i].value)

\* C20: after any inserts, get(k) is, for every key k, the value of the last insert whose
\* key equals k ignoring letter case, or None if there was none; a get that was made
\* returned just that.
C20_GetReturnsLastInsert ==
    /\ \A k \in Keys : HttpHeadersGet(headers.map, k) = LastInserted(k)
    /\ \A i \in DOMAIN headers.got : headers.got[i].value = LastInserted(headers.got[i].key)

\* C20: "AB" was inserted, then "ab" with another value, then "a"; get("aB") returned the
\* second value.
C20_Witness ==
    /\ headers.log = <<[key |-> <<"A", "B">>, value |-> <<"x">>],
                       [key |-> <<"a", "b">>, value |-> <<"y">>],
                       [key |-> <<"a">>, value |-> <<"x">>]>>
    /\ headers.got = <<[key |-> <<"a", "B">>, value |-> Some(<<"y">>)]>>

\* C21: every key stored in an HttpHeaders is lower-case whichever way the map was built,
\* so get(k) finds every entry whose key is k but for case.
C21_StoredKeysLowerCase ==
    /\ \A e \in headers.map : e.key = ToLowercase(e.key)
    /\ \A k \in Keys :
          (\E e \in headers.map : EqualIgnoringCase(e.key, k)) =>
              HttpHeadersGet(headers.map, k) # None

\* The value of a folded header: the value on its first line and then each continuation
\* line as it is, in order.
JoinedValue(f) == f.value \o Flatten(f.folds)

\* C22: deserialize gives each header the value of its first line with its continuation
\* lines appended in order, makes no entry for a continuation line, and starts a new header
\* at the next line that does not begin with a space or a tab.
C22_ContinuationsAppended ==
    headers.how = "deserialize" /\ headers.log = <<>> =>
        /\ headers.ret = "ok"
        /\ \A i \in DOMAIN headers.given :
              (\A j \in DOMAIN headers.given :
                   j > i => ~EqualIgnoringCase(headers.given[j].key, headers.given[i].key))
              => \E e \in headers.map :
                     /\ EqualIgnoringCase(e.key, headers.given[i].key)
                     /\ e.value = JoinedValue(headers.given[i])
        /\ \A e \in headers.map :
              \E i \in DOMAIN headers.given :
                  /\ EqualIgnoringCase(e.key, headers.given[i].key)
                  /\ e.value = JoinedValue(headers.given[i])
        /\ \A e1, e2 \in headers.map : EqualIgnoringCase(e1.key, e2.key) => e1 = e2

\* C22: a header with two continuation lines (one starts with a tab, one with a space) and
\* then another header.
C22_Witness ==
    /\ headers.how = "deserialize"
    /\ headers.given =
          <<[key |-> <<"A">>, value |-> <<"x">>, folds |-> <<<<"\t", "x">>, <<" ", "y">>>>],
            [key |-> <<"a", "b">>, value |-> <<"y">>, folds |-> <<>>]>>
    /\ headers.map = {[key |-> <<"a">>, value |-> <<"x", "\t", "x", " ", "y">>],
                      [key |-> <<"a", "b">>, value |-> <<"y">>]}

(***************************************************************************)
(* Claims about HttpRequestBuilder.                                        *)
(***************************************************************************)
\* The entries of the map whose key is k but for case.
Entries(k) == {e \in headers.map : EqualIgnoringCase(e.key, k)}

\* What the builder set for key k, and what it is after the add_header calls made since.
Carried(k, default) == IF LastInserted(k) # None THEN LastInserted(k) ELSE default

\* C23: a request built by HttpRequestBuilder::new carries Host (the URL's authority),
\* User-Agent http_io and Accept */*, and Transfer-Encoding: chunked exactly when the method
\* has a body (DELETE, POST, PUT); add_header with a key that is an existing one but for
\* case replaces the value and adds no second header.
C23_BuilderHeaders ==
    headers.how = "builder" =>
        LET g == headers.given[1] IN
        /\ HttpHeadersGet(headers.map, HostKey) = Carried(HostKey, Some(<<g.authority>>))
        /\ HttpHeadersGet(headers.map, UserAgentKey) = Some(<<"http_io">>)
        /\ HttpHeadersGet(headers.map, AcceptKey) = Carried(AcceptKey, Some(<<"*/*">>))
        /\ HttpHeadersGet(headers.map, TransferEncodingKey) =
              IF g.method \in {"DELETE", "POST", "PUT"} THEN Some(<<"chunked">>) ELSE None
        /\ \A k \in {HostKey, UserAgentKey, AcceptKey} : Cardinality(Entries(k)) = 1
        /\ Cardinality(Entries(TransferEncodingKey)) =
              IF g.method \in {"DELETE", "POST", "PUT"} THEN 1 ELSE 0
        /\ \A e \in headers.map :
              \E k \in {HostKey, UserAgentKey, AcceptKey, TransferEncodingKey} \cup AddKeys :
                  EqualIgnoringCase(e.key, k)

\* C23: a DELETE request to "alias" whose Host was then set twice by add_header, under
\* "HOST" and under "host".
C23_Witness ==
    /\ headers.how = "builder"
    /\ headers.given = <<[method |-> "DELETE", authority |-> "alias"]>>
    /\ headers.log = <<[key |-> <<"H", "O", "S", "T">>, value |-> <<"x">>],
                       [key |-> <<"h", "o", "s", "t">>, value |-> <<"y">>]>>
    /\ HttpHeadersGet(headers.map, HostKey) = Some(<<"y">>)
    /\ Cardinality(headers.map) = 4

(***************************************************************************)
(* Claims about percent-encoding.                                          *)
(***************************************************************************)
\* The length of an encoding that leaves unreserved characters alone and writes '%' and two
\* digits for each byte of the others.
RECURSIVE TwoDigitLen(_)
TwoDigitLen(cs) ==
    IF cs = <<>> THEN 0
    ELSE (IF Head(cs) \in {<<97>>, <<126>>} THEN 1 ELSE 3 * Len(Head(cs)))
         + TwoDigitLen(Tail(cs))

\* C24: percent_encode writes each byte of a character that is not unreserved as '%' and
\* two hex digits, and percent_decode of the encoded string succeeds and gives the string
\* back.
C24_DecodeOfEncodeIsIdentity ==
    /\ pc = "percent" /\ parser.op = "percent_encode" =>
          Len(parser.s) = TwoDigitLen(CharsOf(BytesOf(input)))
    /\ pc = "percent" /\ parser.op = "percent_decode" =>
          /\ parser.ret = "ok"
          /\ delivered = BytesOf(input)

(***************************************************************************)
(* Claims about Url.                                                       *)
(***************************************************************************)
\* C25: a Url that was parsed, formatted and parsed again: the second parse succeeds and
\* gives a Url equal in every field.
C25_ParseOfFormatIsIdentity ==
    pc = "url" /\ urlRun.step = "reparsed" =>
        /\ urlRun.again.ret = "ok"
        /\ urlRun.again.url = urlRun.parsed.url

\* C26: a URL string of the grammar that parses is formatted as the same string.
C26_FormatOfParseIsIdentity ==
    pc = "url" /\ urlRun.step \in {"formatted", "reparsed"} /\ urlRun.s \in GrammarUrls =>
        urlRun.text = urlRun.s

\* C27: a Url that a parse returned has a scheme that is not empty, and an authority that is
\* not empty when the scheme is HTTP or HTTPS.
C27_SchemeAndAuthorityNonEmpty ==
    pc = "url" /\ urlRun.parsed.ret = "ok" =>
        /\ SchemeDisplay(urlRun.parsed.url.scheme) # <<>>
        /\ urlRun.parsed.url.scheme.variant \in {"Http", "Https"} =>
              urlRun.parsed.url.authority # <<>>

(***************************************************************************)
(* Claims about HttpStatus.                                                *)
(***************************************************************************)
\* C28: from_code(c).to_code() is c for every code c; a code of the known set gives a named
\* variant, and every other code gives Unknown(c).
C28_ToCodeOfFromCode ==
    /\ pc = "status" /\ statusRun.back # None => statusRun.back[1] = statusRun.code
    /\ pc = "status" /\ statusRun.status # None =>
          IF statusRun.code \in KnownCodes
          THEN statusRun.status[1].variant # "Unknown"
          ELSE statusRun.status[1] = [variant |-> "Unknown", code |-> statusRun.code]

\* C28: the code 306, which has no variant of its own, has come back from Unknown(306).
C28_Witness ==
    /\ pc = "status"
    /\ statusRun.code = 306
    /\ statusRun.status = Some([variant |-> "Unknown", code |-> 306])
    /\ statusRun.back = Some(306)

(***************************************************************************)
(* Claims about reads within a chunk and after the last chunk.             *)
(***************************************************************************)
\* C29: a read made while a chunk has payload left returns at most min(|buf|, remaining)
\* bytes and takes from the stream those bytes only: nothing that stands after them is
\* consumed before the whole payload has been delivered, whatever the buffer length.  (A
\* stream that has ended within the payload is left aside: the read fails there.)
C29_ReadStaysWithinChunk ==
    [][ (pc = "body" /\ body.kind = "Chunked" /\ body.chunk /\ body.limit > 0) =>
            LET n == Len(delivered') - Len(delivered) IN
            /\ n <= Min(hist'.len, body.limit)
            /\ input' = Drop(input, n)
            /\ (input # <<>> => body'.chunk /\ body'.limit = body.limit - n) ]_vars

\* C30: once the zero-size line has been read, a read returns 0 and takes nothing from the
\* stream; on a complete stream read with non-empty buffers, what follows the zero-size
\* line (the empty line) is still in the stream.
C30_NothingReadAfterZeroLine ==
    [][ (pc = "body" /\ body.kind = "Chunked" /\ hist.zeroSeen) =>
            /\ input' = input
            /\ delivered' = delivered
            /\ lastRet' = "end"
            /\ (WellFormed /\ ~hist.anyEmpty /\ src.cut = Len(FullStream(src.chunks, src.style))
                  => input = CRLF) ]_vars

\* C30: two chunks were read, then the zero-size line, and a later read has returned 0 with
\* the empty line still unread.
C30_Witness ==
    /\ pc = "body" /\ body.kind = "Chunked"
    /\ hist.zeroSeen /\ ~hist.anyEmpty
    /\ ~body.stream /\ ~body.chunk
    /\ Len(src.chunks) = 2
    /\ delivered = Flatten(src.chunks)
    /\ lastRet = "end"
    /\ input = CRLF

(***************************************************************************)
(* Claims about HttpBody::content_length.                                  *)
(***************************************************************************)
\* C31: content_length() of a body is, after any reads, what it was when the body was made
\* by HttpBody::new; for Limited(n) it stays Some(n).
C31_ContentLengthUnchanged ==
    pc = "body" /\ body.kind \in {"Chunked", "Limited", "ReadTilClose"} =>
        /\ ContentLength(body) = ContentLength(HttpBodyNew(hdr.encoding, hdr.content_length))
        /\ body.kind = "Limited" => ContentLength(body) = hdr.content_length


\* Where the first empty line of s starts: the first CRLF that follows a CRLF.
FirstBlankLine(s) ==
    IF \E i \in 1..(Len(s) - 3) : SubSeq(s, i, i + 3) = CRLF \o CRLF
    THEN CHOOSE i \in 1..(Len(s) - 3) :
            /\ SubSeq(s, i, i + 3) = CRLF \o CRLF
            /\ \A j \in 1..(i - 1) : SubSeq(s, j, j + 3) # CRLF \o CRLF
    ELSE 0

\* The bytes after the first empty line.
AfterBlankLine(s) == Drop(s, FirstBlankLine(s) + 3)

\* C32: when HttpRequest::deserialize or HttpResponse::deserialize succeeds, the stream has
\* been consumed exactly up to and including the first empty line, whatever the number of
\* header lines and continuation lines: the body is made over the bytes after that line, and
\* the first byte a body that is not chunked delivers is the first of them.
C32_BodyStartsAfterBlankLine ==
    pc \in {"wire", "body"} /\ wire.got # <<>> /\ wire.got[1].kind = "ok" =>
        /\ wire.got[1].rest = AfterBlankLine(wire.given)
        /\ body.kind = "ReadTilClose" => delivered \o input = AfterBlankLine(wire.given)
        /\ body.kind = "Limited" /\ delivered # <<>> =>
               delivered[1] = AfterBlankLine(wire.given)[1]

\* C32 witness: a response with two headers, one of them folded over several lines, has been
\* read, and the body has delivered bytes that look like a continuation line.
C32_Witness ==
    /\ pc = "body"
    /\ wire.what = "response"
    /\ wire.got[1].kind = "ok"
    /\ Cardinality(wire.got[1].headers) = 2
    /\ \E e \in wire.got[1].headers : Len(e.value) > 2
    /\ delivered = <<" ", "y", CR>>

\* C33: an entry of the HttpClient cache is never removed or replaced, and a request to an
\* identity that has a cached stream is written to that stream and to no other, whatever
\* failed on the stream before.
C33_CacheEntriesStay ==
    [][/\ httpClient.streams \subseteq httpClient'.streams
       /\ \A e \in httpClient.streams :
             /\ httpClient'.calls = httpClient.calls + 1
             /\ httpClient'.last.id = Some(e.id)
             /\ httpClient'.last.ret = "ok"
             => /\ httpClient'.last.stream = e.stream
                /\ Len(httpClient'.wires[e.stream]) = Len(httpClient.wires[e.stream]) + 1
                /\ Len(httpClient'.connects) = Len(httpClient.connects)]_vars

\* C33 witness: a finish on a cached stream failed because the peer had closed it, and the
\* request made after that was written to the same stream.
C33_Witness ==
    \E e \in httpClient.streams, f \in httpClient.failed :
        /\ f.stream = e.stream
        /\ f.error = "UnexpectedEof"
        /\ f.at < Len(httpClient.wires[e.stream])
        /\ httpClient.last.stream = e.stream
        /\ httpClient.last.ret = "ok"

\* The header block of the request that was sent says transfer-encoding: chunked.
SaysChunked ==
    \E e \in headers.map : e.key = ToLowercase(TransferEncodingKey) /\ e.value = <<"chunked">>

\* What has been written after the header block of the request.
AfterHead == Drop(Out(client), Len(Flatten(BuiltHead(client.method, headers.map))))

\* C34: once a request sent through HttpRequestBuilder has been finished, the bytes written
\* after the header block end with the zero-size chunk (and every write made a chunk) if and
\* only if the header block contains transfer-encoding: chunked; otherwise nothing follows
\* the header block.
C34_ChunkedIffHeaderSaysSo ==
    pc = "read" =>
        IF SaysChunked
        THEN /\ Len(AfterHead) >= Len(Terminator)
             /\ Drop(AfterHead, Len(AfterHead) - Len(Terminator)) = Terminator
        ELSE AfterHead = <<>>

\* The URI of a request line: what stands between its first and its second blank.
UriOf(line) ==
    LET a == Find(line, 0, {" "}) + 1
        b == a + Find(line, a, {" "}) + 1
    IN  SubSeq(line, a + 1, b - 1)

\* C35: the request line written for a URL that HttpRequestBuilder accepts has a URI that
\* begins with '/', also when the URL has a query or a fragment but no path.
C35_UriBeginsWithSlash ==
    pc = "url" /\ urlRun.step = "request" =>
        /\ UriOf(urlRun.text) # <<>>
        /\ UriOf(urlRun.text)[1] = "/"

\* The URL that was given has no path, no query and no fragment, or has a path.
PathOrNothing ==
    urlRun.parsed.url.path.components # <<>> \/ urlRun.parsed.url.path.trailing_slash
        \/ (urlRun.parsed.url.query = None /\ urlRun.parsed.url.fragment = None)

\* The first '@' of s stands after the first '/', '?' or '#' that follows "://".
AtAfterAuthority(s) ==
    LET from == Find(s, 0, {":"}) + 3
        at == Find(s, 0, {"@"})
        sep == Find(s, from, {"/", "?", "#"})
    IN  /\ Find(s, 0, {":"}) >= 0
        /\ from <= Len(s)
        /\ SubSeq(s, from - 2, from) = <<":", "/", "/">>
        /\ sep >= 0
        /\ at > from + sep

\* s with a 'b' in the place of each '@'.
AtAsLetter(s) == [i \in 1..Len(s) |-> IF s[i] = "@" THEN "b" ELSE s[i]]

\* Decoded text with the byte of 'b' in the place of each byte of '@'.
AtAsLetterBytes(bytes) ==
    [i \in 1..Len(bytes) |-> IF bytes[i] = ByteOf("@") THEN ByteOf("b") ELSE bytes[i]]

\* C36: when the first '@' of a URL stands after the first '/', '?' or '#' that follows
\* "://", parsing gives no user_information, and the authority, port, path, query and
\* fragment are those of the URL with an ordinary letter in the place of the '@'.
C36_UserInfoOnlyFromAuthority ==
    pc = "url" /\ urlRun.step # "given" /\ AtAfterAuthority(urlRun.s) =>
        LET u == urlRun.parsed
            t == UrlFromStr(AtAsLetter(urlRun.s))
        IN  /\ u.ret = t.ret
            /\ u.ret = "ok" =>
                  /\ u.url.user_information = None
                  /\ u.url.authority = t.url.authority
                  /\ u.url.port = t.url.port
                  /\ [i \in DOMAIN u.url.path.components |->
                         AtAsLetterBytes(u.url.path.components[i])] = t.url.path.components
                  /\ [i \in DOMAIN u.url.query |-> AtAsLetterBytes(u.url.query[i])]
                         = t.url.query
                  /\ [i \in DOMAIN u.url.fragment |-> AtAsLetterBytes(u.url.fragment[i])]
                         = t.url.fragment

\* C37: when the bytes on an accepted stream do not parse as a request, serve_one calls no
\* handler operation and answers 500 Internal Server Error with the text of the error: the
\* response is made once deserialize has returned, and is what has been written when
\* serve_one returns Ok.
C37_ParseFailureGives500 ==
    /\ pc = "server"
    /\ wire.what = "request"
    /\ server.pc \notin {"accept", "deserialize"}
    /\ HttpRequestDeserializeBytes(wire.given).kind # "ok"
    => LET r == [status |-> "500 Internal Server Error",
                 text |-> HttpRequestDeserializeBytes(wire.given).error]
       IN  /\ server.calls = <<>>
           /\ server.response = Some(r)
           /\ server.pc = "done" /\ ~server.writeFailed =>
                 server.out = ResponseHead(r) \o <<r.text>>

\* The places of s where a CRLF ends (the index of its LF).
CrLfEnds(s) == {i \in 2..Len(s) : s[i - 1] = CR /\ s[i] = LF}

\* The k-th of them, and 0 for k = 0.
NthCrLfEnd(s, k) ==
    IF k = 0 THEN 0
    ELSE CHOOSE e \in CrLfEnds(s) : Cardinality({x \in CrLfEnds(s) : x <= e}) = k

\* The bytes of s between its (k-1)-th and its k-th CRLF.
TextBeforeCrLf(s, k) == SubSeq(s, NthCrLfEnd(s, k - 1) + 1, NthCrLfEnd(s, k) - 2)

\* C38: the k-th call on a CrLfStream gives the text before the k-th CRLF of the input (as
\* long as it is UTF-8); where that text is empty, next gives the end of the items and
\* expect_next fails with UnexpectedEof; when the input has no k-th CRLF the call fails with
\* UnexpectedEof and gives neither a partial line nor the end of the items.
C38_LinesBeforeEachCrLf ==
    pc = "crlf" =>
        \A k \in 1..Len(wire.got) :
            LET item == wire.got[k] IN
            IF k > Cardinality(CrLfEnds(wire.given))
            THEN item.kind = "err" /\ item.error = "UnexpectedEof"
            ELSE IF TextBeforeCrLf(wire.given, k) = <<>>
            THEN IF item.op = "next" THEN item.kind = "end"
                 ELSE item.kind = "err" /\ item.error = "UnexpectedEof"
            ELSE Utf8Text(TextBeforeCrLf(wire.given, k)) =>
                    item.kind = "line" /\ item.line = TextBeforeCrLf(wire.given, k)

\* C38 witness: a line, then the end of the items at the empty line, then the error at the
\* end of an input that stops in the middle of a line.
C38_Witness ==
    /\ pc = "crlf"
    /\ wire.given = <<"a", CR, LF, CR, LF, "a">>
    /\ Len(wire.got) = 3
    /\ wire.got[1].kind = "line"
    /\ wire.got[2].kind = "end"
    /\ wire.got[3].kind = "err"

\* The character of s at byte position `position`: one byte, or the two of the two-byte
\* character.
CharAt(s, position) ==
    IF s[position + 1] = "C3" /\ position + 2 <= Len(s) THEN SubSeq(s, position + 1, position + 2)
    ELSE <<s[position + 1]>>

\* C39: a call of expect, parse_until or parse_until_any that returns Err leaves the position
\* where it was; after a failed expect that had input in front of it, an expect of the
\* character that stands at the position succeeds.
C39_FailedCallKeepsPosition ==
    [][parser'.op \in {"expect", "parse_until"} /\ parser'.ret = "err" =>
          /\ parser'.position = parser.position
          /\ parser'.s = parser.s
          /\ parser'.op = "expect" /\ parser'.position < Len(parser'.s) =>
                ParserExpect(parser', CharAt(parser'.s, parser'.position)).p.ret = "ok"]_vars

\* C39 witness: an expect has failed in the middle of a string, after another call had moved
\* the position there.
C39_Witness ==
    /\ pc = "parser"
    /\ parser.op = "expect"
    /\ parser.ret = "err"
    /\ parser.position > 0
    /\ parser.position < Len(parser.s)

\* The request that was serialized is one the claim C40 speaks of: a URI that is not empty
\* and has no blank or tab, keys without ':' and white space, values without CR and LF.
Serializable(r) ==
    /\ r.uri # <<>>
    /\ \A i \in 1..Len(r.uri) : r.uri[i] \notin {" ", "\t"}
    /\ \A e \in r.headers :
          /\ \A i \in 1..Len(e.key) : e.key[i] \notin {":", " ", "\t", CR, LF}
          /\ \A i \in 1..Len(e.value) : e.value[i] \notin {CR, LF}

\* C40: HttpRequest::deserialize applied to the bytes HttpRequest::serialize wrote for such a
\* request gives the method, URI, version and header map of the request.
C40_DeserializeOfSerialize ==
    pc \in {"wire", "body"} /\ wire.sent # <<>> /\ wire.got # <<>> /\ Serializable(wire.sent[1])
    => /\ wire.got[1].kind = "ok"
       /\ wire.got[1].method = wire.sent[1].method
       /\ wire.got[1].uri = wire.sent[1].uri
       /\ wire.got[1].version = wire.sent[1].version
       /\ wire.got[1].headers = wire.sent[1].headers

\* The keys of the request are in lower case and its URI has no CR and no LF.
LowerCaseKeysPlainUri(r) ==
    /\ \A e \in r.headers : e.key = ToLowercase(e.key)
    /\ \A i \in 1..Len(r.uri) : r.uri[i] \notin {CR, LF}
=============================================================================
